---- MODULE Spec2Model ----
(***************************************************************************)
(* Model of the mock-serving route of mockapi_forge:                       *)
(*   findMatchingMock / handleRequest  (app/api/mock/.../route.ts)         *)
(*   getFakerFunction / processValue / generateMockData (lib/dataGenerator)*)
(* JavaScript strings are modelled as sequences of one-character strings,  *)
(* so that startsWith / endsWith / slice / split / regular expressions are *)
(* computed the way the code computes them.                                *)
(***************************************************************************)
EXTENDS Integers, Sequences, FiniteSets, TLC

----------------------------------------------------------------------------
(* Bounds of the model *)

\* largest number of rows of mock_endpoints in the modelled store
MaxMocks == 2

----------------------------------------------------------------------------
(* JavaScript string primitives on character sequences *)

startsWith(s, p) ==
    /\ Len(s) >= Len(p)
    /\ SubSeq(s, 1, Len(p)) = p

endsWith(s, p) ==
    /\ Len(s) >= Len(p)
    /\ SubSeq(s, Len(s) - Len(p) + 1, Len(s)) = p

\* s.slice(0, -1)
sliceDropLast(s) == SubSeq(s, 1, Len(s) - 1)

LowerLetters ==
    <<"a", "b", "c", "d", "e", "f", "g", "h", "i", "j", "k", "l", "m",
    "n", "o", "p", "q", "r", "s", "t", "u", "v", "w", "x", "y", "z">>

UpperLetters ==
    <<"A", "B", "C", "D", "E", "F", "G", "H", "I", "J", "K", "L", "M",
    "N", "O", "P", "Q", "R", "S", "T", "U", "V", "W", "X", "Y", "Z">>

letterIndex(letters, c) == CHOOSE i \in 1..Len(letters) : letters[i] = c

isLetterOf(letters, c) == \E i \in 1..Len(letters) : letters[i] = c

toLowerChar(c) ==
    IF isLetterOf(UpperLetters, c) THEN LowerLetters[letterIndex(UpperLetters, c)]
    ELSE c

toUpperChar(c) ==
    IF isLetterOf(LowerLetters, c) THEN UpperLetters[letterIndex(LowerLetters, c)]
    ELSE c

toLowerCase(s) == [i \in 1..Len(s) |-> toLowerChar(s[i])]

toUpperCase(s) == [i \in 1..Len(s) |-> toUpperChar(s[i])]

\* the class \w: [A-Za-z0-9_]
WordChars ==
    {LowerLetters[i] : i \in 1..26} \cup {UpperLetters[i] : i \in 1..26}
      \cup {"0", "1", "2", "3", "4", "5", "6", "7", "8", "9", "_"}

RECURSIVE join(_, _)
\* parts.join(sep)
join(parts, sep) ==
    IF parts = <<>> THEN <<>>
    ELSE IF Len(parts) = 1 THEN parts[1]
    ELSE parts[1] \o sep \o join(Tail(parts), sep)

RECURSIVE split(_, _)
\* s.split(sep) for a one-character separator
split(s, sep) ==
    IF \A i \in 1..Len(s) : s[i] # sep THEN <<s>>
    ELSE LET k == CHOOSE i \in 1..Len(s) :
                      /\ s[i] = sep
                      /\ \A j \in 1..(i - 1) : s[j] # sep
         IN  <<SubSeq(s, 1, k - 1)>> \o split(SubSeq(s, k + 1, Len(s)), sep)

----------------------------------------------------------------------------
(* Path composition, findMatchingMock step 3 *)

\* x.startsWith('/') ? x : `/${x}`
normLeading(p) == IF startsWith(p, <<"/">>) THEN p ELSE <<"/">> \o p

\* x.length > 1 && x.endsWith('/') ? x.slice(0, -1) : x
cleanTrailing(p) ==
    IF Len(p) > 1 /\ endsWith(p, <<"/">>) THEN sliceDropLast(p) ELSE p

\* "mock.projects?.base_path" is modelled as a sequence of length 0 or 1:
\* <<>> when the mock has no project or the project's base_path is null,
\* <<p>> when the base_path is the string p
NoBase == <<>>

\* the truthiness test "if (projectBasePath)": null, undefined and '' are falsy
Truthy(projects) ==
    /\ projects # NoBase
    /\ projects[1] # <<>>

\* fullPathTemplate without the case of the project root: the two clean
\* paths are always concatenated
fullPathTemplateNoRoot(projects, path_template) ==
    IF Truthy(projects)
    THEN cleanTrailing(normLeading(projects[1])) \o cleanTrailing(normLeading(path_template))
    ELSE cleanTrailing(normLeading(path_template))

fullPathTemplate(projects, path_template) ==
    IF Truthy(projects)
    THEN LET projectBasePath == projects[1]
             cleanProjPath == cleanTrailing(normLeading(projectBasePath))
             cleanMockPath == cleanTrailing(normLeading(path_template))
         IN  IF cleanMockPath = <<"/">> THEN cleanProjPath
             ELSE cleanProjPath \o cleanMockPath
    ELSE cleanTrailing(normLeading(path_template))

normalizedReqPath(requestedSlugParts) ==
    LET requestedPath == <<"/">> \o join(requestedSlugParts, <<"/">>)
        stripped == cleanTrailing(requestedPath)
    IN  IF stripped = <<>> THEN <<"/">> ELSE stripped

----------------------------------------------------------------------------
(* path-to-regexp: match(fullPathTemplate, { decode })(normalizedReqPath)  *)
(* for patterns over '/', ':' and name characters; default options         *)
(* (sensitive: false, strict: false, end: true, delimiter "/#?",           *)
(* prefixes "./")                                                          *)

LitToken(text) == [kind |-> "lit", text |-> text, prefix |-> <<>>]

ParamToken(name, prefix) == [kind |-> "param", text |-> name, prefix |-> prefix]

ParseOk(tokens) == [ok |-> TRUE, tokens |-> tokens, message |-> "none"]

ParseError(message) == [ok |-> FALSE, tokens |-> <<>>, message |-> message]

\* length of the run of name characters of str that starts at position i
RECURSIVE nameRun(_, _)
nameRun(str, i) ==
    IF i <= Len(str) /\ str[i] \in WordChars THEN 1 + nameRun(str, i + 1)
    ELSE 0

flush(path, result) ==
    IF path # <<>> THEN result \o <<LitToken(path)>> ELSE result

\* parse(str): the lexer and the token loop; "char" is the CHAR token
\* consumed just before a NAME token, kept as the parameter's prefix when it
\* is one of the prefix characters
RECURSIVE parseFrom(_, _, _, _)
parseFrom(str, i, path, result) ==
    IF i > Len(str) THEN ParseOk(flush(path, result))
    ELSE LET hasChar == str[i] # ":"
             j == IF hasChar THEN i + 1 ELSE i
             char == IF hasChar THEN <<str[i]>> ELSE <<>>
         IN  IF j <= Len(str) /\ str[j] = ":"
             THEN LET n == nameRun(str, j + 1)
                      prefix == IF char \in {<<"/">>, <<".">>} THEN char ELSE <<>>
                      path2 == IF prefix = <<>> THEN path \o char ELSE path
                  IN  IF n = 0
                      THEN ParseError("TypeError: Missing parameter name")
                      ELSE parseFrom(str, j + 1 + n, <<>>,
                               flush(path2, result) \o
                                 <<ParamToken(SubSeq(str, j + 1, j + n), prefix)>>)
             ELSE parseFrom(str, i + 1, path \o char, result)

parse(str) == parseFrom(str, 1, <<>>, <<>>)

Delimiters == {"/", "#", "?"}

\* does the regular expression built by tokensToRegexp from toks match all
\* of s: literals compare case-insensitively (flag "i"), a parameter is
\* ([^\/#\?]+?) after its prefix, and the end is [\/#\?]?$
RECURSIVE regexpMatches(_, _)
regexpMatches(toks, s) ==
    IF toks = <<>>
    THEN \/ s = <<>>
         \/ Len(s) = 1 /\ s[1] \in Delimiters
    ELSE LET t == Head(toks)
         IN  IF t.kind = "lit"
             THEN /\ Len(s) >= Len(t.text)
                  /\ toLowerCase(SubSeq(s, 1, Len(t.text))) = toLowerCase(t.text)
                  /\ regexpMatches(Tail(toks), SubSeq(s, Len(t.text) + 1, Len(s)))
             ELSE /\ startsWith(s, t.prefix)
                  /\ \E k \in 1..(Len(s) - Len(t.prefix)) :
                        /\ \A m \in 1..k : s[Len(t.prefix) + m] \notin Delimiters
                        /\ regexpMatches(Tail(toks),
                                         SubSeq(s, Len(t.prefix) + k + 1, Len(s)))

\* match(pattern)(path): "throw" when the pattern does not compile,
\* otherwise whether the path matches
match(pattern, path) ==
    LET p == parse(pattern)
    IN  IF ~p.ok THEN [threw |-> TRUE, message |-> p.message, result |-> FALSE]
        ELSE [threw |-> FALSE, message |-> "none",
              result |-> regexpMatches(p.tokens, path)]

\* the first k characters of s after the prefix of the parameter t are its
\* group ([^\/#\?]+?) in a match of t and the tokens rest against all of s
captured(t, rest, s, k) ==
    /\ startsWith(s, t.prefix)
    /\ k <= Len(s) - Len(t.prefix)
    /\ \A m \in 1..k : s[Len(t.prefix) + m] \notin Delimiters
    /\ regexpMatches(rest, SubSeq(s, Len(t.prefix) + k + 1, Len(s)))

\* the length of the group of t: the quantifier +? takes the shortest
lazyLength(t, rest, s) ==
    CHOOSE k \in 1..Len(s) :
        /\ captured(t, rest, s, k)
        /\ \A j \in 1..(k - 1) : ~captured(t, rest, s, j)

RECURSIVE captures(_, _)
RECURSIVE captureOf(_, _, _, _)

\* the <<name, value>> pairs of the groups of the match of toks against all
\* of s, which matches
captures(toks, s) ==
    IF toks = <<>> THEN <<>>
    ELSE IF Head(toks).kind = "lit"
    THEN captures(Tail(toks), SubSeq(s, Len(Head(toks).text) + 1, Len(s)))
    ELSE captureOf(Head(toks), Tail(toks), s, lazyLength(Head(toks), Tail(toks), s))

captureOf(t, rest, s, k) ==
    << <<t.text, SubSeq(s, Len(t.prefix) + 1, Len(t.prefix) + k)>> >>
        \o captures(rest, SubSeq(s, Len(t.prefix) + k + 1, Len(s)))

\* result.params of match(pattern, { decode: decodeURIComponent })(path) for
\* a path that matches and has no "%": the captured values by name
params(pattern, path) == captures(parse(pattern).tokens, path)

\* matcher(normalizedReqPath): false, or the result object with its params
matcher(pattern, path) ==
    [threw |-> match(pattern, path).threw,
     message |-> match(pattern, path).message,
     result |-> match(pattern, path).result,
     params |-> IF match(pattern, path).result THEN params(pattern, path) ELSE <<>>]

----------------------------------------------------------------------------
(* JSON values (type JsonValue), extended with the non-JSON results a      *)
(* generator can return                                                    *)

Str(s) == [t |-> "string", v |-> s]

Num(n) == [t |-> "number", v |-> n]

Bool(b) == [t |-> "boolean", v |-> b]

Null == [t |-> "null", v |-> 0]

Arr(items) == [t |-> "array", v |-> items]

\* an object is the sequence of its <<key, value>> pairs in key order
Obj(pairs) == [t |-> "object", v |-> pairs]

BigInt(n) == [t |-> "bigint", v |-> n]

hasKey(obj, key) == \E i \in 1..Len(obj.v) : obj.v[i][1] = key

getKey(obj, key) ==
    obj.v[CHOOSE i \in 1..Len(obj.v) :
              /\ obj.v[i][1] = key
              /\ \A j \in (i + 1)..Len(obj.v) : obj.v[j][1] # key][2]

----------------------------------------------------------------------------
(* JSON.parse for the argument text of a template: integers, strings       *)
(* without escapes, true/false/null, arrays and objects, blanks between    *)
(* tokens.  Result: <<>> for a SyntaxError, <<value>> otherwise.           *)

DigitChars == <<"0", "1", "2", "3", "4", "5", "6", "7", "8", "9">>

Digits == {DigitChars[i] : i \in 1..10}

DigitVal == [c \in Digits |-> letterIndex(DigitChars, c) - 1]

\* the white space of JSON text
Blank == {" ", "\t", "\n", "\r"}

RECURSIVE skipBlank(_, _)
skipBlank(s, i) ==
    IF i <= Len(s) /\ s[i] \in Blank THEN skipBlank(s, i + 1) ELSE i

RECURSIVE digitRun(_, _)
digitRun(s, i) ==
    IF i <= Len(s) /\ s[i] \in Digits THEN 1 + digitRun(s, i + 1) ELSE 0

RECURSIVE digitsValue(_, _, _)
digitsValue(s, i, n) ==
    IF n = 0 THEN 0
    ELSE digitsValue(s, i, n - 1) * 10 + DigitVal[s[i + n - 1]]

\* position of the first '"' at or after i, 0 when there is none
RECURSIVE quoteAt(_, _)
quoteAt(s, i) ==
    IF i > Len(s) THEN 0
    ELSE IF s[i] = "\"" THEN i
    ELSE quoteAt(s, i + 1)

PFail == [ok |-> FALSE, v |-> Null, next |-> 0]

POk(v, next) == [ok |-> TRUE, v |-> v, next |-> next]

RECURSIVE parseValue(_, _)
RECURSIVE parseElements(_, _, _)
RECURSIVE parseMembers(_, _, _)

\* one JSON value starting at position i (after blanks)
parseValue(s, i0) ==
    LET i == skipBlank(s, i0)
    IN  IF i > Len(s) THEN PFail
        ELSE IF s[i] \in Digits
        THEN LET n == digitRun(s, i)
             IN  IF s[i] = "0" /\ n > 1 THEN PFail
                 ELSE POk(Num(digitsValue(s, i, n)), i + n)
        ELSE IF s[i] = "-"
        THEN LET n == digitRun(s, i + 1)
             IN  IF n = 0 \/ (s[i + 1] = "0" /\ n > 1) THEN PFail
                 ELSE POk(Num(0 - digitsValue(s, i + 1, n)), i + 1 + n)
        ELSE IF s[i] = "\""
        THEN LET q == quoteAt(s, i + 1)
             IN  IF q = 0 THEN PFail
                 ELSE POk(Str(SubSeq(s, i + 1, q - 1)), q + 1)
        ELSE IF startsWith(SubSeq(s, i, Len(s)), <<"t", "r", "u", "e">>)
        THEN POk(Bool(TRUE), i + 4)
        ELSE IF startsWith(SubSeq(s, i, Len(s)), <<"f", "a", "l", "s", "e">>)
        THEN POk(Bool(FALSE), i + 5)
        ELSE IF startsWith(SubSeq(s, i, Len(s)), <<"n", "u", "l", "l">>)
        THEN POk(Null, i + 4)
        ELSE IF s[i] = "["
        THEN LET j == skipBlank(s, i + 1)
             IN  IF j <= Len(s) /\ s[j] = "]" THEN POk(Arr(<<>>), j + 1)
                 ELSE parseElements(s, i + 1, <<>>)
        ELSE IF s[i] = "{"
        THEN LET j == skipBlank(s, i + 1)
             IN  IF j <= Len(s) /\ s[j] = "}" THEN POk(Obj(<<>>), j + 1)
                 ELSE parseMembers(s, i + 1, <<>>)
        ELSE PFail

\* the elements of an array, after '[' or ','
parseElements(s, i, acc) ==
    LET e == parseValue(s, i)
    IN  IF ~e.ok THEN PFail
        ELSE LET j == skipBlank(s, e.next)
             IN  IF j > Len(s) THEN PFail
                 ELSE IF s[j] = "]" THEN POk(Arr(acc \o <<e.v>>), j + 1)
                 ELSE IF s[j] = "," THEN parseElements(s, j + 1, acc \o <<e.v>>)
                 ELSE PFail

\* the members of an object, after '{' or ','
parseMembers(s, i, acc) ==
    LET k == skipBlank(s, i)
    IN  IF k > Len(s) \/ s[k] # "\"" THEN PFail
        ELSE LET q == quoteAt(s, k + 1)
                 c == skipBlank(s, q + 1)
             IN  IF q = 0 \/ c > Len(s) \/ s[c] # ":" THEN PFail
                 ELSE LET e == parseValue(s, c + 1)
                          pair == <<SubSeq(s, k + 1, q - 1), e.v>>
                          j == skipBlank(s, e.next)
                      IN  IF ~e.ok \/ j > Len(s) THEN PFail
                          ELSE IF s[j] = "}" THEN POk(Obj(acc \o <<pair>>), j + 1)
                          ELSE IF s[j] = ","
                          THEN parseMembers(s, j + 1, acc \o <<pair>>)
                          ELSE PFail

JSONparse(text) ==
    LET r == parseValue(text, 1)
    IN  IF r.ok /\ skipBlank(text, r.next) > Len(text) THEN <<r.v>> ELSE <<>>

\* argsStringWithParens.trim() !== ""
\* the white space String.prototype.trim removes (of the characters the
\* model writes)
TrimBlank == Blank \cup {"\f"}

trimIsEmpty(s) == \A i \in 1..Len(s) : s[i] \in TrimBlank

----------------------------------------------------------------------------
(* The generator library: the part of the faker object graph that the      *)
(* modelled templates reach.  A node is an object with properties or a     *)
(* function; every object also has the inherited property "constructor".   *)

FnNode(fn) == [kind |-> "function", fn |-> fn, props |-> <<>>]

ObjNode(props) ==
    [kind |-> "object", fn |-> "none",
     props |-> props \o << <<<<"c", "o", "n", "s", "t", "r", "u", "c", "t", "o", "r">>, FnNode("constructor")>> >>]

faker ==
    ObjNode(<<
      <<<<"s", "t", "r", "i", "n", "g">>, ObjNode(<< <<<<"u", "u", "i", "d">>, FnNode("string.uuid")>> >>)>>,
      <<<<"n", "u", "m", "b", "e", "r">>, ObjNode(<< <<<<"i", "n", "t">>, FnNode("number.int")>>,
                               <<<<"b", "i", "g", "I", "n", "t">>, FnNode("number.bigInt")>> >>)>>,
      <<<<"h", "e", "l", "p", "e", "r", "s">>,
        ObjNode(<< <<<<"a", "r", "r", "a", "y", "E", "l", "e", "m", "e", "n", "t">>, FnNode("helpers.arrayElement")>> >>)>>
    >>)

\* parts[i] in obj
inObj(obj, key) == \E i \in 1..Len(obj.props) : obj.props[i][1] = key

\* obj[parts[i]]
propOf(obj, key) ==
    obj.props[CHOOSE i \in 1..Len(obj.props) : obj.props[i][1] = key][2]

\* descend without the final test "typeof obj === 'function'": whatever the
\* path reaches is returned
RECURSIVE descendNoTypeCheck(_, _, _)
descendNoTypeCheck(obj, parts, i) ==
    IF i > Len(parts) THEN <<obj.fn>>
    ELSE IF obj.kind = "object" /\ inObj(obj, parts[i])
         THEN descendNoTypeCheck(propOf(obj, parts[i]), parts, i + 1)
         ELSE <<>>

\* the loop of getFakerFunction from index i on; <<>> is "return undefined"
RECURSIVE descend(_, _, _)
descend(obj, parts, i) ==
    IF i > Len(parts)
    THEN IF obj.kind = "function" THEN <<obj.fn>> ELSE <<>>
    ELSE IF obj.kind = "object" /\ inObj(obj, parts[i])
         THEN descend(propOf(obj, parts[i]), parts, i + 1)
         ELSE <<>>

\* getFakerFunction without the test of the first segment
getFakerFunctionAnyPrefix(path) ==
    LET parts == split(path, ".")
    IN  IF Len(parts) = 0 THEN <<>> ELSE descend(faker, parts, 2)

\* <<>> for undefined, <<fn>> for the function found
getFakerFunction(path) ==
    LET parts == split(path, ".")
    IN  IF Len(parts) = 0 \/ parts[1] # <<"f", "a", "k", "e", "r">> THEN <<>>
        ELSE descend(faker, parts, 2)

\* Values a generator draws at random
MaxRnd == 1

RndVals == 0..MaxRnd

Threw(message) == [threw |-> TRUE, message |-> message, value |-> Null]

Returned(value) == [threw |-> FALSE, message |-> "none", value |-> value]

\* fakerFunc(args) / fakerFunc(): args is <<>> for a call without argument,
\* <<a>> for a call with the argument a; r is the random draw of this call
invoke(fn, args, r) ==
    IF fn = "string.uuid"
    THEN Returned(Str(<<"u", "u", "i", "d", "-", ToString(r)>>))
    ELSE IF fn = "number.int"
    THEN IF args = <<>> THEN Returned(Num(r))
         ELSE IF args[1].t = "number"
         THEN IF args[1].v < 0
              THEN Threw("FakerError: Max should be greater than min")
              ELSE Returned(Num(r % (args[1].v + 1)))
         ELSE IF args[1].t = "object"
         THEN LET min == IF hasKey(args[1], <<"m", "i", "n">>)
                         THEN getKey(args[1], <<"m", "i", "n">>).v ELSE 0
                  max == IF hasKey(args[1], <<"m", "a", "x">>)
                         THEN getKey(args[1], <<"m", "a", "x">>).v ELSE min + MaxRnd
              IN  IF max < min
                  THEN Threw("FakerError: Max should be greater than min")
                  ELSE Returned(Num(min + (r % (max - min + 1))))
         ELSE Returned(Num(r))
    ELSE IF fn = "number.bigInt" THEN Returned(BigInt(r))
    ELSE IF fn = "helpers.arrayElement"
    THEN IF args # <<>> /\ args[1].t = "array" /\ Len(args[1].v) > 0
         THEN Returned(args[1].v[(r % Len(args[1].v)) + 1])
         ELSE Threw("FakerError: Cannot get value from empty dataset")
    ELSE Threw("TypeError: Class constructor cannot be invoked without new")

----------------------------------------------------------------------------
(* processValue and generateMockData *)

NoMatch == [matched |-> FALSE, fakerPath |-> <<>>, hasArgs |-> FALSE,
            argsString |-> <<>>]

\* length of the run of [\w.] characters of s that starts at position i
RECURSIVE pathRun(_, _)
pathRun(s, i) ==
    IF i <= Len(s) /\ (s[i] \in WordChars \/ s[i] = ".")
    THEN 1 + pathRun(s, i + 1)
    ELSE 0

\* the characters "." of a regular expression does not match
LineTerminators == {"\n", "\r"}

\* the match of ([\w.]+)(?:\((.*)\))? against all of inner, whose first n
\* characters are the longest run of [\w.]
matchInner(inner, n) ==
    IF n = 0 THEN NoMatch
    ELSE IF n = Len(inner)
    THEN [matched |-> TRUE, fakerPath |-> inner, hasArgs |-> FALSE,
          argsString |-> <<>>]
    ELSE IF /\ Len(inner) >= n + 2
            /\ inner[n + 1] = "("
            /\ inner[Len(inner)] = ")"
            /\ \A i \in (n + 1)..Len(inner) : inner[i] \notin LineTerminators
    THEN [matched |-> TRUE, fakerPath |-> SubSeq(inner, 1, n), hasArgs |-> TRUE,
          argsString |-> SubSeq(inner, n + 2, Len(inner) - 1)]
    ELSE NoMatch

\* the match of the pattern against the characters i..j of value
matchAt(value, i, j) ==
    IF j >= i + 4 /\ value[i] = "{" /\ value[i + 1] = "{"
       /\ value[j - 1] = "}" /\ value[j] = "}"
    THEN matchInner(SubSeq(value, i + 2, j - 2),
                    pathRun(SubSeq(value, i + 2, j - 2), 1))
    ELSE NoMatch

\* the spans i..j of value the pattern matches
matchSpans(value) ==
    { p \in (1..Len(value)) \X (1..Len(value)) : matchAt(value, p[1], p[2]).matched }

\* the leftmost span of the set, and the longest there
firstSpan(spans) ==
    CHOOSE p \in spans :
        \A q \in spans : p[1] < q[1] \/ (p[1] = q[1] /\ p[2] >= q[2])

\* value.match(/{{([\w.]+)(?:\((.*)\))?}}/), the pattern without its anchors
templateSearch(value) ==
    IF matchSpans(value) = {} THEN NoMatch
    ELSE matchAt(value, firstSpan(matchSpans(value))[1], firstSpan(matchSpans(value))[2])

\* value.match(/^{{([\w.]+)(?:\((.*)\))?}}$/)
templateMatch(value) ==
    IF Len(value) >= 5 /\ startsWith(value, <<"{", "{">>) /\ endsWith(value, <<"}", "}">>)
    THEN matchInner(SubSeq(value, 3, Len(value) - 2),
                    pathRun(SubSeq(value, 3, Len(value) - 2), 1))
    ELSE NoMatch

ErrorFaker(fakerPath) == Str(<<"E", "r", "r", "o", "r", ":", " ", "F", "a", "k", "e", "r", " ", "(">> \o fakerPath \o <<")">>)

ErrorUnknownFakerPath(fakerPath) ==
    Str(<<"E", "r", "r", "o", "r", ":", " ", "U", "n", "k", "n", "o", "w", "n", " ", "F", "a", "k", "e", "r", " ", "P", "a", "t", "h", " ", "(">> \o fakerPath \o <<")">>)

rndAt(rnd, k) == IF k \in DOMAIN rnd THEN rnd[k] ELSE 0

\* result of a walk: the value and the number of generator invocations made
\* so far; the k-th invocation of a request draws rnd[k]
Walk(v, k) == [v |-> v, k |-> k]

\* the result of the call c of the generator at fakerPath: its value, or
\* the marker of the catch block when it threw
callResult(c, fakerPath, k) ==
    IF c.threw THEN Walk(ErrorFaker(fakerPath), k + 1) ELSE Walk(c.value, k + 1)

\* the try block with non-blank argument text: args is JSON.parse's result,
\* <<>> when it threw
callWithArgs(fakerFunc, args, fakerPath, k, rnd) ==
    IF args = <<>> THEN Walk(ErrorFaker(fakerPath), k)
    ELSE callResult(invoke(fakerFunc[1], args, rndAt(rnd, k + 1)), fakerPath, k)

\* "if (fakerFunc) { try ... } else ..." for the match m of the template
callFaker(fakerFunc, m, k, rnd) ==
    IF fakerFunc = <<>> THEN Walk(ErrorUnknownFakerPath(m.fakerPath), k)
    ELSE IF m.hasArgs /\ ~trimIsEmpty(m.argsString)
    THEN callWithArgs(fakerFunc, JSONparse(m.argsString), m.fakerPath, k, rnd)
    ELSE callResult(invoke(fakerFunc[1], <<>>, rndAt(rnd, k + 1)), m.fakerPath, k)

\* "if (match) ... return value" for the match m of the string value
processMatch(m, value, k, rnd) ==
    IF ~m.matched THEN Walk(value, k)
    ELSE callFaker(getFakerFunction(m.fakerPath), m, k, rnd)

\* the string branch of processValue
processString(value, k, rnd) ==
    processMatch(templateMatch(value.v), value, k, rnd)

RECURSIVE processValue(_, _, _)
RECURSIVE processItems(_, _, _)
RECURSIVE processKeys(_, _, _)

\* the walk w of the elements as the walk of the array
asArray(w) == Walk(Arr(w.v), w.k)

\* the walk w of the keys as the walk of the object
asObject(w) == Walk(Obj(w.v), w.k)

processValue(value, k, rnd) ==
    IF value.t = "string" THEN processString(value, k, rnd)
    ELSE IF value.t = "array" THEN asArray(processItems(value.v, Walk(<<>>, k), rnd))
    ELSE IF value.t = "object" THEN asObject(processKeys(value.v, Walk(<<>>, k), rnd))
    ELSE Walk(value, k)

\* the elements walked so far, w, with the walk r of one more element
pushItem(w, r) == Walk(w.v \o <<r.v>>, r.k)

\* value.map(item => processValue(item)); w is the walk of the items before
processItems(items, w, rnd) ==
    IF items = <<>> THEN w
    ELSE processItems(Tail(items),
                      pushItem(w, processValue(Head(items), w.k, rnd)), rnd)

\* newObj[key] = r.v; the assignment newObj['__proto__'] = x creates no own
\* property
setKey(w, key, r) ==
    IF key = <<"_", "_", "p", "r", "o", "t", "o", "_", "_">> THEN Walk(w.v, r.k)
    ELSE Walk(w.v \o << <<key, r.v>> >>, r.k)

\* for (const key in value) newObj[key] = processValue(value[key]); w is the
\* walk of the keys before
processKeys(pairs, w, rnd) ==
    IF pairs = <<>> THEN w
    ELSE processKeys(Tail(pairs),
                     setKey(w, Head(pairs)[1],
                            processValue(Head(pairs)[2], w.k, rnd)), rnd)

\* JSON.parse(JSON.stringify(structure)) of a stored JSON value: a fresh
\* value with the same arrays, keys and scalars
RECURSIVE deepCopy(_)
deepCopy(structure) ==
    IF structure.t = "array"
    THEN Arr([i \in 1..Len(structure.v) |-> deepCopy(structure.v[i])])
    ELSE IF structure.t = "object"
    THEN Obj([i \in 1..Len(structure.v) |->
                 <<structure.v[i][1], deepCopy(structure.v[i][2])>>])
    ELSE structure

\* max without the clamp: the second argument as it is
maxNoClamp(a, b) == b

\* Math.max(a, b)
max(a, b) == IF a >= b THEN a ELSE b

\* the loop "for (i = 0; i < Math.max(1, arrayCount); i++) results.push(...)"
\* with n elements to go; w is the walk of the elements before
RECURSIVE generateItems(_, _, _, _)
generateItems(structure, n, w, rnd) ==
    IF n = 0 THEN w
    ELSE generateItems(structure, n - 1,
                       pushItem(w, processValue(deepCopy(structure), w.k, rnd)),
                       rnd)

\* the value returned and the number of generator invocations made
generateMockData(structure, isArray, arrayCount, rnd) ==
    IF isArray
    THEN asArray(generateItems(structure, max(1, arrayCount), Walk(<<>>, 0), rnd))
    ELSE processValue(deepCopy(structure), 0, rnd)

----------------------------------------------------------------------------
(* processValue and generateMockData on a heap.  Arrays and objects live   *)
(* at addresses, so that a write to an object and the sharing of an object *)
(* by two values are told apart from a copy.                               *)

\* the array or object at address a
Ref(a) == [t |-> "ref", v |-> a]

\* state of an evaluation: the heap h (address -> array or object of scalars
\* and references), the generator invocations made so far, and the value out
\* of the last step
St(h, calls, out) == [h |-> h, calls |-> calls, out |-> out]

\* one invocation: the path of the generator and its argument list
Call(fakerPath, args) == [path |-> fakerPath, args |-> args]

emptyOut(st) == St(st.h, st.calls, <<>>)

\* an array created with the elements st.out
allocArr(st) == St(Append(st.h, Arr(st.out)), st.calls, Ref(Len(st.h) + 1))

\* an object created with the members st.out
allocObj(st) == St(Append(st.h, Obj(st.out)), st.calls, Ref(Len(st.h) + 1))

pushOut(st, r) == St(r.h, r.calls, st.out \o <<r.out>>)

pushMember(st, key, r) == St(r.h, r.calls, st.out \o << <<key, r.out>> >>)

\* JSON.stringify(x): the JSON value that x denotes in the heap h
RECURSIVE valueAt(_, _)
valueAt(h, x) ==
    IF x.t # "ref" THEN x
    ELSE IF h[x.v].t = "array"
    THEN Arr([i \in 1..Len(h[x.v].v) |-> valueAt(h, h[x.v].v[i])])
    ELSE Obj([i \in 1..Len(h[x.v].v) |->
                 <<h[x.v].v[i][1], valueAt(h, h[x.v].v[i][2])>>])

RECURSIVE store(_, _)
RECURSIVE storeItems(_, _)
RECURSIVE storeMembers(_, _)

\* JSON.parse of the text of value: every array and object of it is created
store(st, value) ==
    IF value.t = "array" THEN allocArr(storeItems(value.v, emptyOut(st)))
    ELSE IF value.t = "object" THEN allocObj(storeMembers(value.v, emptyOut(st)))
    ELSE St(st.h, st.calls, value)

storeItems(items, st) ==
    IF items = <<>> THEN st
    ELSE storeItems(Tail(items), pushOut(st, store(st, Head(items))))

storeMembers(pairs, st) ==
    IF pairs = <<>> THEN st
    ELSE storeMembers(Tail(pairs),
                      pushMember(st, Head(pairs)[1], store(st, Head(pairs)[2])))

\* JSON.parse(JSON.stringify(structure))
copyH(st, structure) == store(st, valueAt(st.h, structure))

\* fakerFunc was invoked with args and ended as c: the invocation is logged;
\* the value it returned is a value of its own
calledH(st, c, m, args) ==
    IF c.threw
    THEN St(st.h, Append(st.calls, Call(m.fakerPath, args)), ErrorFaker(m.fakerPath))
    ELSE store(St(st.h, Append(st.calls, Call(m.fakerPath, args)), <<>>), c.value)

\* fakerFunc(args) / fakerFunc()
invokeH(st, fn, m, args, rnd) ==
    calledH(st, invoke(fn, args, rndAt(rnd, Len(st.calls) + 1)), m, args)

\* the try block with non-blank argument text: args is JSON.parse's result,
\* <<>> when it threw
withArgsH(st, fakerFunc, m, args, rnd) ==
    IF args = <<>> THEN St(st.h, st.calls, ErrorFaker(m.fakerPath))
    ELSE invokeH(st, fakerFunc[1], m, args, rnd)

\* callFakerH that parses the text between the parentheses whenever there
\* are parentheses, and passes an empty object when the text is blank
callFakerEmptyObjectH(st, fakerFunc, m, rnd) ==
    IF fakerFunc = <<>> THEN St(st.h, st.calls, ErrorUnknownFakerPath(m.fakerPath))
    ELSE IF m.hasArgs
    THEN withArgsH(st, fakerFunc, m,
                   IF trimIsEmpty(m.argsString) THEN <<Obj(<<>>)>>
                   ELSE JSONparse(m.argsString), rnd)
    ELSE invokeH(st, fakerFunc[1], m, <<>>, rnd)

\* "if (fakerFunc) { try ... } else ..." for the match m of the template
callFakerH(st, fakerFunc, m, rnd) ==
    IF fakerFunc = <<>> THEN St(st.h, st.calls, ErrorUnknownFakerPath(m.fakerPath))
    ELSE IF m.hasArgs /\ ~trimIsEmpty(m.argsString)
    THEN withArgsH(st, fakerFunc, m, JSONparse(m.argsString), rnd)
    ELSE invokeH(st, fakerFunc[1], m, <<>>, rnd)

\* "if (match) ... return value" for the match m of the string value
processMatchH(st, m, value, rnd) ==
    IF ~m.matched THEN St(st.h, st.calls, value)
    ELSE callFakerH(st, getFakerFunction(m.fakerPath), m, rnd)

\* const newObj = {}
newObj(st) == St(Append(st.h, Obj(<<>>)), st.calls, Ref(Len(st.h) + 1))

\* newObj[key] = r.out, a write to the object st.out; the assignment
\* newObj['__proto__'] = x creates no own property
setKeyH(st, key, r) ==
    IF key = <<"_", "_", "p", "r", "o", "t", "o", "_", "_">> THEN St(r.h, r.calls, st.out)
    ELSE St([r.h EXCEPT ![st.out.v] = Obj(@.v \o << <<key, r.out>> >>)],
            r.calls, st.out)

RECURSIVE processValueH(_, _, _)
RECURSIVE processItemsH(_, _, _)
RECURSIVE processKeysH(_, _, _)

\* the array and object branches of processValue for the array or object node
processNodeH(st, node, rnd) ==
    IF node.t = "array" THEN allocArr(processItemsH(node.v, emptyOut(st), rnd))
    ELSE processKeysH(node.v, newObj(st), rnd)

processValueH(st, value, rnd) ==
    IF value.t = "string" THEN processMatchH(st, templateMatch(value.v), value, rnd)
    ELSE IF value.t = "ref" THEN processNodeH(st, st.h[value.v], rnd)
    ELSE St(st.h, st.calls, value)

\* value.map(item => processValue(item))
processItemsH(items, st, rnd) ==
    IF items = <<>> THEN st
    ELSE processItemsH(Tail(items),
                       pushOut(st, processValueH(st, Head(items), rnd)), rnd)

\* for (const key in value) newObj[key] = processValue(value[key])
processKeysH(pairs, st, rnd) ==
    IF pairs = <<>> THEN st
    ELSE processKeysH(Tail(pairs),
                      setKeyH(st, Head(pairs)[1],
                              processValueH(st, Head(pairs)[2], rnd)), rnd)

\* processValue(x) for the value x = st.out
processOutH(st, rnd) == processValueH(st, st.out, rnd)

\* the loaded value r.out written to slot i of the array or object at a
writeSlotH(st, a, i, r) ==
    IF r.h[a].t = "array"
    THEN St([r.h EXCEPT ![a] = [@ EXCEPT !.v[i] = r.out]], r.calls, Ref(a))
    ELSE St([r.h EXCEPT ![a] = [@ EXCEPT !.v[i][2] = r.out]], r.calls, Ref(a))

\* the value slot i of the array or object at a holds
slotH(st, a, i) ==
    IF st.h[a].t = "array" THEN st.h[a].v[i] ELSE st.h[a].v[i][2]

RECURSIVE expandInPlaceH(_, _, _)
RECURSIVE expandSlotsH(_, _, _, _)

\* processValue that expands the value where it is:
\* value[key] = processValue(value[key]) for every key or index
expandInPlaceH(st, value, rnd) ==
    IF value.t = "string" THEN processMatchH(st, templateMatch(value.v), value, rnd)
    ELSE IF value.t = "ref" THEN expandSlotsH(st, value.v, 1, rnd)
    ELSE St(st.h, st.calls, value)

expandSlotsH(st, a, i, rnd) ==
    IF i > Len(st.h[a].v) THEN St(st.h, st.calls, Ref(a))
    ELSE expandSlotsH(writeSlotH(st, a, i,
                                 expandInPlaceH(st, slotH(st, a, i), rnd)),
                      a, i + 1, rnd)

\* walkCopyH without the copy and with the walk that expands in place
walkInPlaceH(st, structure, rnd) == expandInPlaceH(st, structure, rnd)

\* walkCopyH that walks once: when results has an element already, that
\* element is returned again
walkReuseH(st, structure, rnd) ==
    IF st.out.t = "ref" /\ Len(st.h[st.out.v].v) > 0
    THEN St(st.h, st.calls, st.h[st.out.v].v[1])
    ELSE processOutH(copyH(st, structure), rnd)

\* processValue(JSON.parse(JSON.stringify(structure)))
walkCopyH(st, structure, rnd) == processOutH(copyH(st, structure), rnd)

\* const results = []
newArr(st) == St(Append(st.h, Arr(<<>>)), st.calls, Ref(Len(st.h) + 1))

\* results.push(r.out), a write to the array st.out
pushH(st, r) ==
    St([r.h EXCEPT ![st.out.v] = Arr(@.v \o <<r.out>>)], r.calls, st.out)

----------------------------------------------------------------------------
(* The stores: table profiles and table mock_endpoints (with the joined    *)
(* projects.base_path of each row)                                         *)

ProfileRows ==
    { [id |-> "u1", api_route_prefix |-> "p1"],
      [id |-> "u2", api_route_prefix |-> "p2"] }

\* {"id":"{{faker.string.uuid}}","n":5}
TemplateIdN ==
    Obj(<< <<<<"i", "d">>, Str(<<"{", "{", "f", "a", "k", "e", "r", ".", "s", "t", "r", "i", "n", "g", ".", "u", "u", "i", "d", "}", "}">>)>>, <<<<"n">>, Num(5)>> >>)

\* {"a":"{{foo.bar}}","b":"{{faker.number.int}}","c":["{{faker.string}}","{{faker.nope.x}}"]}
TemplateUnknown ==
    Obj(<< <<<<"a">>, Str(<<"{", "{", "f", "o", "o", ".", "b", "a", "r", "}", "}">>)>>,
           <<<<"b">>, Str(<<"{", "{", "f", "a", "k", "e", "r", ".", "n", "u", "m", "b", "e", "r", ".", "i", "n", "t", "}", "}">>)>>,
           <<<<"c">>, Arr(<<Str(<<"{", "{", "f", "a", "k", "e", "r", ".", "s", "t", "r", "i", "n", "g", "}", "}">>),
                          Str(<<"{", "{", "f", "a", "k", "e", "r", ".", "n", "o", "p", "e", ".", "x", "}", "}">>)>>)>> >>)

\* {"ok":true,"s":"see {{faker.string.uuid}}"}
TemplatePlain ==
    Obj(<< <<<<"o", "k">>, Bool(TRUE)>>,
           <<<<"s">>, Str(<<"s", "e", "e", " ", "{", "{", "f", "a", "k", "e", "r", ".", "s", "t", "r", "i", "n", "g", ".", "u", "u", "i", "d", "}", "}">>)>> >>)

\* {"v":"{{faker.number.bigInt}}"}
TemplateBigInt == Obj(<< <<<<"v">>, Str(<<"{", "{", "f", "a", "k", "e", "r", ".", "n", "u", "m", "b", "e", "r", ".", "b", "i", "g", "I", "n", "t", "}", "}">>)>> >>)

\* {"x":"{{faker.number.int({"min":1,"max":1})}}","w":"{{faker.helpers.arrayElement()}}","f":"{{faker}}"}
TemplateArgs ==
    Obj(<< <<<<"x">>, Str(<<"{", "{", "f", "a", "k", "e", "r", ".", "n", "u", "m", "b", "e", "r", ".", "i", "n", "t", "(", "{", "\"", "m", "i", "n", "\"", ":", "1", ",", "\"", "m", "a", "x", "\"", ":", "1", "}", ")", "}", "}">>)>>,
           <<<<"w">>, Str(<<"{", "{", "f", "a", "k", "e", "r", ".", "h", "e", "l", "p", "e", "r", "s", ".", "a", "r", "r", "a", "y", "E", "l", "e", "m", "e", "n", "t", "(", ")", "}", "}">>)>>,
           <<<<"f">>, Str(<<"{", "{", "f", "a", "k", "e", "r", "}", "}">>)>> >>)

Row(id, user_id, path_template, http_method, projects, status_code, response_structure, is_array, array_count) ==
    [id |-> id, user_id |-> user_id, path_template |-> path_template,
     http_method |-> http_method, projects |-> projects,
     status_code |-> status_code, response_structure |-> response_structure,
     is_array |-> is_array, array_count |-> array_count]

\* the rows a store of the model is made of
RowPool ==
    { Row(1, "u1", <<"/", "i", "t", "e", "m", "s", "/", ":", "i", "d">>, <<"G", "E", "T">>, NoBase, 200, TemplateIdN, FALSE, 1),
      Row(2, "u1", <<"/", "i", "t", "e", "m", "s", "/", "a", "c", "t", "i", "v", "e">>, <<"G", "E", "T">>, NoBase, 201, TemplateUnknown, TRUE, 2),
      Row(3, "u2", <<"/", "i", "t", "e", "m", "s", "/", "a", "c", "t", "i", "v", "e">>, <<"G", "E", "T">>, NoBase, 200, TemplateIdN, FALSE, 1),
      Row(4, "u1", <<"/", "i", "t", "e", "m", "s", "/", "a", "c", "t", "i", "v", "e">>, <<"P", "O", "S", "T">>, NoBase, 202, TemplatePlain, FALSE, 1),
      Row(5, "u1", <<"/">>, <<"G", "E", "T">>, <<<<"s", "h", "o", "p", "/">>>>, 150, TemplateArgs, FALSE, 1),
      Row(6, "u1", <<"/", "I", "t", "e", "m", "s", "/", ":", "i", "d", "/">>, <<"G", "E", "T">>, NoBase, 299, TemplateArgs, TRUE, 1),
      Row(7, "u1", <<"/", "b", "a", "d", "/", ":">>, <<"G", "E", "T">>, NoBase, 200, TemplatePlain, FALSE, 1),
      Row(8, "u1", <<"/", "b", "i", "g">>, <<"G", "E", "T">>, <<<<"/">>>>, 200, TemplateBigInt, FALSE, 1) }

\* the stores of the model: at most MaxMocks rows of the pool
Stores == { s \in SUBSET RowPool : Cardinality(s) <= MaxMocks }

Prefixes == {"p1", "p2", "px"}

Methods == {<<"G", "E", "T">>, <<"g", "e", "t">>, <<"P", "O", "S", "T">>}

Slugs ==
    { <<<<"i", "t", "e", "m", "s">>, <<"a", "c", "t", "i", "v", "e">>>>, <<<<"i", "t", "e", "m", "s">>>>, <<<<"s", "h", "o", "p">>>>,
      <<<<"b", "a", "d">>, <<"x">>>>, <<<<"b", "i", "g">>>>, <<>> }

Requests ==
    [api_route_prefix : Prefixes, method : Methods, slug : Slugs]

----------------------------------------------------------------------------
(* findMatchingMock *)

\* .from('profiles').select('id').eq('api_route_prefix', p).single():
\* <<>> when .single() reports an error (no row, or several), else <<id>>
selectProfile(profileTable, apiRoutePrefix) ==
    LET rows == {p \in profileTable : p.api_route_prefix = apiRoutePrefix}
    IN  IF Cardinality(rows) = 1 THEN <<(CHOOSE p \in rows : TRUE).id>> ELSE <<>>

\* selectMocks without the filter .eq('user_id', userId)
selectMocksAnyUser(mockTable, userId, requestedMethod) ==
    {m \in mockTable : m.http_method = toUpperCase(requestedMethod)}

\* the rows selected by .eq('user_id', userId).eq('http_method',
\* requestedMethod.toUpperCase())
selectMocks(mockTable, userId, requestedMethod) ==
    {m \in mockTable : /\ m.user_id = userId
                       /\ m.http_method = toUpperCase(requestedMethod)}

\* the query has no ORDER BY: the store may supply the selected rows in any
\* order
Orders(rows) ==
    {o \in [1..Cardinality(rows) -> rows] :
        \A i, j \in 1..Cardinality(rows) : i # j => o[i] # o[j]}

Found(mock) == [threw |-> FALSE, message |-> "none", mock |-> mock]

MatchThrew(message) == [threw |-> TRUE, message |-> message, mock |-> <<>>]

\* findFrom without the early return: the loop runs to the end and the last
\* matching row is returned
RECURSIVE findLastFrom(_, _, _)
findLastFrom(userMocksAndProjects, i, requestedSlugParts) ==
    IF i > Len(userMocksAndProjects) THEN Found(<<>>)
    ELSE LET mock == userMocksAndProjects[i]
             r == match(fullPathTemplate(mock.projects, mock.path_template),
                        normalizedReqPath(requestedSlugParts))
             rest == findLastFrom(userMocksAndProjects, i + 1, requestedSlugParts)
         IN  IF r.threw THEN MatchThrew(r.message)
             ELSE IF rest.threw \/ rest.mock # <<>> THEN rest
             ELSE IF r.result THEN Found(<<mock>>)
             ELSE Found(<<>>)

\* step 3, the loop over userMocksAndProjects from index i on; mock is <<>>
\* for "return null" and <<m>> for "return mock"
RECURSIVE findFrom(_, _, _)
findFrom(userMocksAndProjects, i, requestedSlugParts) ==
    IF i > Len(userMocksAndProjects) THEN Found(<<>>)
    ELSE LET mock == userMocksAndProjects[i]
             r == match(fullPathTemplate(mock.projects, mock.path_template),
                        normalizedReqPath(requestedSlugParts))
         IN  IF r.threw THEN MatchThrew(r.message)
             ELSE IF r.result THEN Found(<<mock>>)
             ELSE findFrom(userMocksAndProjects, i + 1, requestedSlugParts)

----------------------------------------------------------------------------
(* handleRequest *)

Response(status, error, details, json) ==
    [status |-> status, error |-> error, details |-> details, json |-> json]

\* JSON.stringify(data): a BigInt cannot be serialized.  The text is
\* represented by the JSON value it encodes.
RECURSIVE hasBigInt(_)
hasBigInt(value) ==
    IF value.t = "bigint" THEN TRUE
    ELSE IF value.t = "array"
    THEN \E i \in 1..Len(value.v) : hasBigInt(value.v[i])
    ELSE IF value.t = "object"
    THEN \E i \in 1..Len(value.v) : hasBigInt(value.v[i][2])
    ELSE FALSE

JSONstringify(data) ==
    IF hasBigInt(data)
    THEN Threw("TypeError: Do not know how to serialize a BigInt")
    ELSE Returned(data)

\* statuses for which a Response must not have a body
NullBodyStatus == {101, 103, 204, 205, 304}

\* new NextResponse(text, { status }): the Response constructor rejects a
\* status outside 200..599 and a body with a null-body status
newNextResponse(text, status) ==
    IF status < 200 \/ status > 599
    THEN Threw("RangeError: init[\"status\"] must be in the range of 200 to 599, inclusive.")
    ELSE IF status \in NullBodyStatus
    THEN Threw("TypeError: Response with null body status cannot have body")
    ELSE Returned(Response(status, "none", "none", text))

\* notFoundResponse without the status option: the default status 200
notFoundResponseDefaultStatus ==
    Response(200, "Mock definition not found for this path and method.",
             "none", Null)

\* the else branch: status 404
notFoundResponse ==
    Response(404, "Mock definition not found for this path and method.",
             "none", Null)

\* catchResponse that rethrows: the exception escapes, no response
catchResponseRethrow(message) == <<>>

\* the catch block: status 500 with details: error.message
catchResponse(message) ==
    <<Response(500, "Internal Server Error", message, Null)>>

\* the response for the result r of the constructor of the success response
builtResponse(r) ==
    IF r.threw THEN catchResponse(r.message) ELSE <<r.value>>

\* new NextResponse(JSON.stringify(data), { status }) for the result text of
\* JSON.stringify
successResponse(text, status_code) ==
    IF text.threw THEN catchResponse(text.message)
    ELSE builtResponse(newNextResponse(text.value, status_code))

\* the try block after findMatchingMock has returned or thrown: the sequence
\* of responses handleRequest returns (an exception that escapes returns none)
respond(find, rnd) ==
    IF find.threw THEN catchResponse(find.message)
    ELSE IF find.mock # <<>>
    THEN successResponse(
             JSONstringify(generateMockData(find.mock[1].response_structure,
                                            find.mock[1].is_array,
                                            find.mock[1].array_count, rnd).v),
             find.mock[1].status_code)
    ELSE <<notFoundResponse>>

\* number of generator invocations a request for this find result makes
generatorCalls(find, rnd) ==
    IF ~find.threw /\ find.mock # <<>>
    THEN generateMockData(find.mock[1].response_structure, find.mock[1].is_array,
                          find.mock[1].array_count, rnd).k
    ELSE 0

----------------------------------------------------------------------------
(* State *)

VARIABLES
    profiles,        \* table profiles
    mock_endpoints,  \* table mock_endpoints
    pc,              \* where handleRequest is: idle, profile, mocks, done
    request,         \* api_route_prefix, method and slug of the request
    userId,          \* <<profile.id>> once the profile query has returned
    failure,         \* which store query failed: none, profile, mocks
    supplied,        \* userMocksAndProjects as the store supplied it
    found,           \* what findMatchingMock returned or threw
    rndUsed,         \* the random draws of the generator calls of the request
    genCalls,        \* number of generator invocations made for the request
    responses,       \* the responses handleRequest returned for the request
    prev,            \* <<m>>: the find result of the previous run of the same
                     \* request, when the request is a retry
    gTemplate,       \* the stored template as it was written to the store
    gHeap,           \* the arrays and objects that exist, by address
    gStructure,      \* the structure argument: the stored template in gHeap
    gPc,             \* where generateMockData is: idle, loop, single, returned
    gIsArray,        \* the isArray argument of the call
    gArrayCount,     \* the arrayCount argument of the call
    gI,           \* the loop variable i
    gResults,        \* the local variable results
    gDraws,          \* the random draws of the generator calls of the call
    gCalls,          \* the generator invocations of the call
    gReturn,         \* <<x>> once the call has returned x
    mMock,           \* the candidate row of the loop of findMatchingMock
    mSlugParts,      \* requestedSlugParts
    mPc,             \* where the loop body is: idle, loaded, composed,
                     \* matched, threw, returned
    mFullPathTemplate, \* the local variable fullPathTemplate
    mResult,         \* the local variable result
    mReturn,         \* <<mock>> or <<>> (null) once findMatchingMock returned
    cPc,             \* where each concurrent handleRequest is: idle, profile,
                     \* mocks, done
    cUserId,         \* <<profile.id>> of each, once its profile query returned
    cHeap,           \* the arrays and objects of the process, by address
    cFound,          \* what findMatchingMock returned or threw for each
    cStructure,      \* <<x>>: mockDefinition.response_structure of each
    cDraws,          \* the random draws of the generator calls of each
    cData,           \* <<x>>: the local variable data of each
    cResponses,      \* the responses each handleRequest returned
    kRequest,        \* the last request to /api/project-mocks: its method,
                     \* authenticated user, id and body
    kResponse,       \* <<r>>: the response to it
    kBefore,         \* table mock_endpoints as it was before the request
    kIssued,         \* the write the handler issued to the store
    qPath,           \* <<path>>: the argument of a call of getFakerFunction
    qReturn,         \* what the call returned
    wPc,             \* "idle", "requested", "served": a navigation
    wUser,           \* the navigation has an authenticated user
    wPathname,       \* the pathname requested now
    wRedirects,      \* the pathnames the navigation was redirected from
    dPc,             \* "idle", "listed", "requested", "resolved": a look at
                     \* the dashboard
    dMocks,          \* the rows of the owner, in the order of getMocks
    dMock,           \* <<row>>: the listed row looked at
    dUrl,            \* the path of its fullMockUrl
    dFound           \* what findMatchingMock returned for a request to it

\* the state of the mock-serving route
routeVars == <<profiles, mock_endpoints, pc, request, userId, failure, supplied,
               found, rndUsed, genCalls, responses, prev>>

\* the state of a call of generateMockData taken by itself
genVars == <<gTemplate, gHeap, gStructure, gPc, gIsArray, gArrayCount, gI,
             gResults, gDraws, gCalls, gReturn>>

vars == <<profiles, mock_endpoints, pc, request, userId, failure, supplied,
          found, rndUsed, genCalls, responses, prev, gTemplate, gHeap,
          gStructure, gPc, gIsArray, gArrayCount, gI, gResults, gDraws,
          gCalls, gReturn, mMock, mSlugParts, mPc, mFullPathTemplate, mResult,
          mReturn, cPc, cUserId, cHeap, cFound, cStructure, cDraws, cData,
          cResponses, kRequest, kResponse, kBefore, kIssued, qPath, qReturn,
          wPc, wUser, wPathname, wRedirects, dPc, dMocks, dMock, dUrl, dFound>>

\* the state of one pass of the loop of findMatchingMock taken by itself
matchVars == <<mMock, mSlugParts, mPc, mFullPathTemplate, mResult, mReturn>>

\* the state of the handleRequest calls that run concurrently
concVars == <<cPc, cUserId, cHeap, cFound, cStructure, cDraws, cData, cResponses>>

\* the state of the handlers of /api/project-mocks; their table is
\* mock_endpoints
crudVars == <<kRequest, kResponse, kBefore, kIssued>>

\* a call of getFakerFunction taken by itself
resolveVars == <<qPath, qReturn>>

\* a navigation through the middleware
middlewareVars == <<wPc, wUser, wPathname, wRedirects>>

\* a look at the dashboard and a request to a URL it shows
dashVars == <<dPc, dMocks, dMock, dUrl, dFound>>

pageVars == <<resolveVars, middlewareVars, dashVars>>

\* the variables a specification of one part leaves alone
notRoute == <<pageVars, genVars, matchVars, concVars, crudVars>>

notGen == <<pageVars, routeVars, matchVars, concVars, crudVars>>

notMatch == <<pageVars, routeVars, genVars, concVars, crudVars>>

notConc == <<pc, userId, failure, supplied, found, rndUsed, genCalls, responses,
             prev, genVars, matchVars, crudVars, pageVars>>

notCrud == <<profiles, pc, request, userId, failure, supplied, found, rndUsed,
             genCalls, responses, prev, genVars, matchVars, concVars,
             pageVars>>

notResolve == <<routeVars, genVars, matchVars, concVars, crudVars,
                middlewareVars, dashVars>>

notMiddleware == <<routeVars, genVars, matchVars, concVars, crudVars,
                   resolveVars, dashVars>>

notDash == <<profiles, pc, request, userId, failure, supplied, found, rndUsed,
             genCalls, responses, prev, genVars, matchVars, concVars, crudVars,
             resolveVars, middlewareVars>>

NoResult == [threw |-> FALSE, message |-> "none", result |-> FALSE, params |-> <<>>]

\* no call of generateMockData is being looked at by itself
GenIdle ==
    /\ gTemplate = Null
    /\ gHeap = <<>>
    /\ gStructure = Null
    /\ gPc = "idle"
    /\ gIsArray = FALSE
    /\ gArrayCount = 1
    /\ gI = 0
    /\ gResults = Null
    /\ gDraws = <<>>
    /\ gCalls = <<>>
    /\ gReturn = <<>>

\* no pass of the loop of findMatchingMock is being looked at by itself
MatchIdle ==
    /\ mMock = <<>>
    /\ mSlugParts = <<>>
    /\ mPc = "idle"
    /\ mFullPathTemplate = <<>>
    /\ mResult = NoResult
    /\ mReturn = <<>>

\* the concurrent calls of handleRequest
Slots == {"r1", "r2"}

\* no concurrent calls are being looked at
ConcIdle ==
    /\ cPc = [r \in Slots |-> "idle"]
    /\ cUserId = [r \in Slots |-> <<>>]
    /\ cHeap = <<>>
    /\ cFound = [r \in Slots |-> <<>>]
    /\ cStructure = [r \in Slots |-> <<>>]
    /\ cDraws = [r \in Slots |-> <<>>]
    /\ cData = [r \in Slots |-> <<>>]
    /\ cResponses = [r \in Slots |-> <<>>]

\* no call of getFakerFunction, navigation or dashboard is being looked at
ResolveIdle ==
    /\ qPath = <<>>
    /\ qReturn = <<>>

MiddlewareIdle ==
    /\ wPc = "idle"
    /\ wUser = FALSE
    /\ wPathname = <<>>
    /\ wRedirects = <<>>

DashIdle ==
    /\ dPc = "idle"
    /\ dMocks = <<>>
    /\ dMock = <<>>
    /\ dUrl = <<>>
    /\ dFound = <<>>

PagesIdle == ResolveIdle /\ MiddlewareIdle /\ DashIdle

\* no request to /api/project-mocks is being looked at
CrudIdle ==
    /\ kRequest = [op |-> "none", user |-> <<>>, id |-> <<>>, body |-> <<>>]
    /\ kResponse = <<>>
    /\ kBefore = {}
    /\ kIssued = <<>>

\* the other parts of the model are not being looked at
RouteIdle ==
    /\ pc = "idle"
    /\ userId = <<>>
    /\ failure = "none"
    /\ supplied = <<>>
    /\ found = [threw |-> FALSE, message |-> "none", mock |-> <<>>]
    /\ rndUsed = <<>>
    /\ genCalls = 0
    /\ responses = <<>>
    /\ prev = <<>>

NoRequest == [api_route_prefix |-> "px", method |-> <<>>, slug |-> <<>>]

Init ==
    /\ profiles = ProfileRows
    /\ mock_endpoints \in Stores
    /\ pc = "idle"
    /\ request = NoRequest
    /\ userId = <<>>
    /\ failure = "none"
    /\ supplied = <<>>
    /\ found = Found(<<>>)
    /\ rndUsed = <<>>
    /\ genCalls = 0
    /\ responses = <<>>
    /\ prev = <<>>
    /\ GenIdle
    /\ MatchIdle
    /\ ConcIdle
    /\ CrudIdle
    /\ PagesIdle

start(req) ==
    /\ pc' = "profile"
    /\ request' = req
    /\ userId' = <<>>
    /\ failure' = "none"
    /\ supplied' = <<>>
    /\ found' = Found(<<>>)
    /\ rndUsed' = <<>>
    /\ genCalls' = 0
    /\ responses' = <<>>
    /\ UNCHANGED <<profiles, mock_endpoints>>
    /\ UNCHANGED notRoute

\* a request arrives: handleRequest runs up to the profile query
HandleRequest(req) ==
    /\ pc \in {"idle", "done"}
    /\ prev' = <<>>
    /\ start(req)

\* the caller sends the same request again
RetryRequest ==
    /\ pc = "done"
    /\ prev' = IF failure = "none" /\ ~found.threw THEN <<found.mock>> ELSE <<>>
    /\ start(request)

\* findMatchingMock returns null, handleRequest answers
finishNull ==
    /\ pc' = "done"
    /\ found' = Found(<<>>)
    /\ responses' = respond(Found(<<>>), <<>>)
    /\ genCalls' = generatorCalls(Found(<<>>), <<>>)
    /\ UNCHANGED <<profiles, mock_endpoints, request, supplied, rndUsed, prev>>
    /\ UNCHANGED notRoute

\* the profile query reports a storage error: profileError is set
ProfileQueryFails ==
    /\ pc = "profile"
    /\ failure' = "profile"
    /\ UNCHANGED userId
    /\ finishNull

\* the profile query is answered by the store
ProfileQueryReturns ==
    /\ pc = "profile"
    /\ LET profile == selectProfile(profiles, request.api_route_prefix)
       IN  IF profile = <<>>
           THEN /\ UNCHANGED <<userId, failure>>
                /\ finishNull
           ELSE /\ userId' = profile
                /\ pc' = "mocks"
                /\ UNCHANGED <<profiles, mock_endpoints, request, failure,
                               supplied, found, rndUsed, genCalls, responses,
                               prev>>
                /\ UNCHANGED notRoute

\* the query for the user's mocks reports a storage error: mocksError is set
MocksQueryFails ==
    /\ pc = "mocks"
    /\ failure' = "mocks"
    /\ UNCHANGED userId
    /\ finishNull

\* the rest of handleRequest once findMatchingMock has ended with find
finish(find, rnd) ==
    /\ found' = find
    /\ rndUsed' = rnd
    /\ genCalls' = generatorCalls(find, rnd)
    /\ responses' = respond(find, rnd)

\* MocksQueryReturns with a query that takes the rows it returns out of the
\* table (delete().select() instead of select())
MocksQueryConsumes ==
    /\ pc = "mocks"
    /\ \E userMocksAndProjects \in
            Orders(selectMocks(mock_endpoints, userId[1], request.method)) :
         /\ supplied' = userMocksAndProjects
         /\ \E find \in {findFrom(userMocksAndProjects, 1, request.slug)} :
               \E rnd \in [1..generatorCalls(find, <<>>) -> RndVals] :
                  finish(find, rnd)
    /\ mock_endpoints' =
           mock_endpoints \ selectMocks(mock_endpoints, userId[1], request.method)
    /\ pc' = "done"
    /\ UNCHANGED <<profiles, request, userId, failure, prev>>
    /\ UNCHANGED notRoute

\* the query for the user's mocks is answered with the rows in some order;
\* the loop, the generation and the response follow without suspension
MocksQueryReturns ==
    /\ pc = "mocks"
    /\ \E userMocksAndProjects \in
            Orders(selectMocks(mock_endpoints, userId[1], request.method)) :
         /\ supplied' = userMocksAndProjects
         /\ \E find \in {findFrom(userMocksAndProjects, 1, request.slug)} :
               \E rnd \in [1..generatorCalls(find, <<>>) -> RndVals] :
                  finish(find, rnd)
    /\ pc' = "done"
    /\ UNCHANGED <<profiles, mock_endpoints, request, userId, failure, prev>>
    /\ UNCHANGED notRoute

Next ==
    \/ \E req \in Requests : HandleRequest(req)
    \/ RetryRequest
    \/ ProfileQueryFails
    \/ ProfileQueryReturns
    \/ MocksQueryFails
    \/ MocksQueryReturns

Spec == Init /\ [][Next]_vars

----------------------------------------------------------------------------
(* Properties *)

\* the canonical pattern of a stored row
canonical(m) == fullPathTemplate(m.projects, m.path_template)

\* the normalized path of the current request
reqPath == normalizedReqPath(request.slug)

\* handleRequest has answered and findMatchingMock returned a definition
Resolved ==
    /\ pc = "done"
    /\ ~found.threw
    /\ found.mock # <<>>

\* does the pattern of row m match the request path (FALSE when it does not
\* compile)
patternMatches(m) == match(canonical(m), reqPath).result

\* C1: the definition findMatchingMock returns is the first row, in the order
\* the store supplied the rows, whose canonical pattern matches the request
\* path; when no row is returned and nothing was thrown, no supplied row
\* matches.
C1_FirstMatchWins ==
    /\ Resolved =>
         \E i \in 1..Len(supplied) :
            /\ supplied[i] = found.mock[1]
            /\ patternMatches(supplied[i])
            /\ \A j \in 1..(i - 1) : ~patternMatches(supplied[j])
    /\ (pc = "done" /\ ~found.threw /\ found.mock = <<>>) =>
         \A i \in 1..Len(supplied) : ~patternMatches(supplied[i])

\* C1 witness: /items/:id was supplied before /items/active and the request
\* for /items/active resolved to /items/:id
C1_Witness ==
    /\ Resolved
    /\ Len(supplied) = 2
    /\ supplied[1].path_template = <<"/", "i", "t", "e", "m", "s", "/", ":", "i", "d">>
    /\ supplied[2].path_template = <<"/", "i", "t", "e", "m", "s", "/", "a", "c", "t", "i", "v", "e">>
    /\ reqPath = <<"/", "i", "t", "e", "m", "s", "/", "a", "c", "t", "i", "v", "e">>
    /\ found.mock[1] = supplied[1]

\* the segments of a path that starts with '/'
segments(path) == Tail(split(path, "/"))

isParamSegment(seg) == Len(seg) >= 2 /\ seg[1] = ":"

\* the structural match of the claim: same number of segments, literal
\* segments equal character for character, a :name segment facing one
\* non-empty segment
structuralMatch(pattern, path) ==
    LET ps == IF pattern = <<"/">> THEN <<>> ELSE segments(pattern)
        rs == IF path = <<"/">> THEN <<>> ELSE segments(path)
    IN  /\ Len(ps) = Len(rs)
        /\ \A i \in 1..Len(ps) :
              IF isParamSegment(ps[i]) THEN rs[i] # <<>> ELSE ps[i] = rs[i]

\* C2: a supplied row's canonical pattern matches the request path if and
\* only if the two match structurally: same number of segments, equal literal
\* segments, one non-empty segment for each :name segment.
C2_MatchIffStructural ==
    (pc = "done" /\ ~found.threw) =>
        \A i \in 1..Len(supplied) :
            patternMatches(supplied[i])
                <=> structuralMatch(canonical(supplied[i]), reqPath)

\* C3: the definition returned belongs to the profile the prefix resolves to
\* and is registered for the request method, compared case-insensitively.
C3_TenantAndMethod ==
    Resolved =>
        /\ \E p \in profiles :
              /\ p.api_route_prefix = request.api_route_prefix
              /\ p.id = found.mock[1].user_id
        /\ toLowerCase(found.mock[1].http_method) = toLowerCase(request.method)

\* C3 witness: another tenant owns a row whose pattern matches the path, the
\* method was sent in lower case, and the tenant's own row was returned
C3_Witness ==
    /\ Resolved
    /\ request.method = <<"g", "e", "t">>
    /\ found.mock[1].http_method = <<"G", "E", "T">>
    /\ \E m \in mock_endpoints :
          /\ m.user_id # found.mock[1].user_id
          /\ patternMatches(m)

\* C4: a retry of the same request against the same stored definitions
\* selects the same definition as the run before it.
C4_StableSelection ==
    (pc = "done" /\ prev # <<>> /\ failure = "none" /\ ~found.threw) =>
        found.mock = prev[1]

\* the status of the one response
status == responses[1].status

\* C5: when a definition matches, the response has that definition's
\* status_code and the body generateMockData produces from its
\* response_structure, is_array and array_count.
C5_StoredStatusAndBody ==
    Resolved =>
        /\ Len(responses) = 1
        /\ status = found.mock[1].status_code
        /\ responses[1].json =
              generateMockData(found.mock[1].response_structure,
                               found.mock[1].is_array,
                               found.mock[1].array_count, rndUsed).v

\* C6: when the prefix is unknown or no candidate matches, the response is
\* the one fixed 404 response with an error message, and no generator was
\* invoked.
C6_NotFound ==
    (pc = "done" /\ failure = "none" /\ ~found.threw /\ found.mock = <<>>) =>
        /\ Len(responses) = 1
        /\ status = 404
        /\ responses[1] =
              Response(404, "Mock definition not found for this path and method.",
                       "none", Null)
        /\ genCalls = 0

\* C6 witness: the tenant has candidates for the method, none matches
C6_Witness ==
    /\ pc = "done"
    /\ failure = "none"
    /\ userId # <<>>
    /\ supplied # <<>>
    /\ ~found.threw
    /\ found.mock = <<>>
    /\ status = 404

\* the other case of C6: the prefix resolves to no profile
C6_UnknownPrefixCase ==
    /\ pc = "done"
    /\ failure = "none"
    /\ userId = <<>>
    /\ status = 404

\* C7: a storage failure of either query is answered 500.
C7_StorageFailureIs500 ==
    (pc = "done" /\ failure # "none") =>
        /\ Len(responses) = 1
        /\ status = 500

\* C8: the body of a 500 response is the fixed generic message, without any
\* text of the internal error.
C8_GenericBody ==
    (pc = "done" /\ Len(responses) = 1 /\ status = 500) =>
        /\ responses[1].error = "Internal Server Error"
        /\ responses[1].details = "none"

\* serializing the generated data or constructing the success response throws
buildThrows ==
    /\ Resolved
    /\ LET data == generateMockData(found.mock[1].response_structure,
                                    found.mock[1].is_array,
                                    found.mock[1].array_count, rndUsed).v
       IN  \/ hasBigInt(data)
           \/ found.mock[1].status_code \notin 200..599
           \/ found.mock[1].status_code \in NullBodyStatus

\* C9: every request gets exactly one response; its status is 500 when
\* matching threw or building the success response threw, and otherwise the
\* stored status of the matched definition or 404.
C9_AlwaysOneResponse ==
    pc = "done" =>
        /\ Len(responses) = 1
        /\ (found.threw \/ buildThrows) => status = 500
        /\ status \in {404, 500} \cup
                      (IF Resolved THEN {found.mock[1].status_code} ELSE {})

\* C9 witness: compiling a candidate's pattern threw and the answer is 500
C9_Witness ==
    /\ pc = "done"
    /\ found.threw
    /\ Len(responses) = 1
    /\ status = 500

\* the other case of C9: building the success response threw
C9_BuildThrowsCase ==
    /\ buildThrows
    /\ Len(responses) = 1
    /\ status = 500

\* the node a dotted path reaches in the library, <<>> when a segment is
\* missing or an intermediate value is not an object
RECURSIVE reach(_, _)
reach(obj, parts) ==
    IF parts = <<>> THEN <<obj>>
    ELSE IF obj.kind # "object" THEN <<>>
    ELSE LET hits == {i \in 1..Len(obj.props) : obj.props[i][1] = Head(parts)}
         IN  IF hits = {} THEN <<>>
             ELSE reach(obj.props[CHOOSE i \in hits : TRUE][2], Tail(parts))

\* the dotted path resolves to a callable
resolvesToCallable(path) ==
    LET parts == split(path, ".")
    IN  /\ parts[1] = <<"f", "a", "k", "e", "r">>
        /\ reach(faker, Tail(parts)) # <<>>
        /\ reach(faker, Tail(parts))[1].kind = "function"

\* the structure with every whole-string template of an unresolvable path
\* replaced by the plain marker string naming that path
RECURSIVE markUnknown(_)
markUnknown(value) ==
    IF value.t = "string"
    THEN LET m == templateMatch(value.v)
         IN  IF m.matched /\ ~resolvesToCallable(m.fakerPath)
             THEN Str(<<"E", "r", "r", "o", "r", ":", " ", "U", "n", "k", "n", "o", "w", "n", " ", "F", "a", "k", "e", "r", " ", "P", "a", "t", "h", " ", "(">> \o m.fakerPath \o <<")">>)
             ELSE value
    ELSE IF value.t = "array"
    THEN Arr([i \in 1..Len(value.v) |-> markUnknown(value.v[i])])
    ELSE IF value.t = "object"
    THEN Obj([i \in 1..Len(value.v) |->
                 <<value.v[i][1], markUnknown(value.v[i][2])>>])
    ELSE value

\* C10: the walk of a structure with unresolvable templates gives what the
\* walk of the same structure gives when each such leaf is the plain string
\* 'Error: Unknown Faker Path (<path>)': same values elsewhere, same generator
\* invocations, nothing thrown.
C10_UnknownPathMarker ==
    Resolved =>
        LET m == found.mock[1]
            expected == generateMockData(markUnknown(m.response_structure),
                                         m.is_array, m.array_count, rndUsed)
        IN  /\ genCalls = expected.k
            /\ (Len(responses) = 1 /\ status = m.status_code) =>
                   responses[1].json = expected.v

\* C10 witness: a served structure with unresolvable leaves next to a
\* resolvable one
C10_Witness ==
    /\ Resolved
    /\ found.mock[1].response_structure = TemplateUnknown
    /\ markUnknown(TemplateUnknown) # TemplateUnknown
    /\ genCalls = 2
    /\ Len(responses) = 1
    /\ status = 201

----------------------------------------------------------------------------
(* generateMockData taken by itself: a stored template is expanded by      *)
(* calls with any isArray and arrayCount                                   *)

\* greatest arrayCount of a call of the model
MaxCount == 2

ArrayCounts == (0 - 1)..MaxCount

\* {"a":[1,{"b":null,"c":[true,"x"]}],"d":{"e":"{{x}} y","f":" {{faker.string.uuid}}"},"g":[]}
TemplateNested ==
    Obj(<< <<<<"a">>, Arr(<<Num(1), Obj(<< <<<<"b">>, Null>>, <<<<"c">>, Arr(<<Bool(TRUE), Str(<<"x">>)>>)>> >>)>>)>>,
           <<<<"d">>, Obj(<< <<<<"e">>, Str(<<"{", "{", "x", "}", "}", " ", "y">>)>>, <<<<"f">>, Str(<<" ", "{", "{", "f", "a", "k", "e", "r", ".", "s", "t", "r", "i", "n", "g", ".", "u", "u", "i", "d", "}", "}">>)>> >>)>>,
           <<<<"g">>, Arr(<<>>)>> >>)

\* {"a":{"__proto__":1,"b":"t"}}
TemplateProto ==
    Obj(<< <<<<"a">>, Obj(<< <<<<"_", "_", "p", "r", "o", "t", "o", "_", "_">>, Num(1)>>, <<<<"b">>, Str(<<"t">>)>> >>)>> >>)

\* {"p":"{{faker.number.int({min:1})}}","r":["{{faker.number.int(-1)}}","{{faker.string.uuid( \f)}}"]}
TemplateFail ==
    Obj(<< <<<<"p">>, Str(<<"{", "{", "f", "a", "k", "e", "r", ".", "n", "u", "m", "b", "e", "r", ".", "i", "n", "t", "(", "{", "m", "i", "n", ":", "1", "}", ")", "}", "}">>)>>,
           <<<<"r">>, Arr(<<Str(<<"{", "{", "f", "a", "k", "e", "r", ".", "n", "u", "m", "b", "e", "r", ".", "i", "n", "t", "(", "-", "1", ")", "}", "}">>), Str(<<"{", "{", "f", "a", "k", "e", "r", ".", "s", "t", "r", "i", "n", "g", ".", "u", "u", "i", "d", "(", " ", "\f", ")", "}", "}">>)>>)>> >>)

\* {"a":"{{faker.string.uuid}}","b":"{{faker.string.uuid()}}","c":"{{faker.string.uuid(\n)}}"}
TemplateBlank ==
    Obj(<< <<<<"a">>, Str(<<"{", "{", "f", "a", "k", "e", "r", ".", "s", "t", "r", "i", "n", "g", ".", "u", "u", "i", "d", "}", "}">>)>>, <<<<"b">>, Str(<<"{", "{", "f", "a", "k", "e", "r", ".", "s", "t", "r", "i", "n", "g", ".", "u", "u", "i", "d", "(", ")", "}", "}">>)>>,
           <<<<"c">>, Str(<<"{", "{", "f", "a", "k", "e", "r", ".", "s", "t", "r", "i", "n", "g", ".", "u", "u", "i", "d", "(">> \o <<"\n">> \o <<")", "}", "}">>)>> >>)

\* {"a":{"__proto__":"{{faker.number.int({"min":1,"max":1})}}"},
\*  "n":"{{faker.number.int( {"min": 1, "max": 1} )}}"}
TemplateProtoArgs ==
    Obj(<< <<<<"a">>, Obj(<< <<<<"_", "_", "p", "r", "o", "t", "o", "_", "_">>, Str(<<"{", "{", "f", "a", "k", "e", "r", ".", "n", "u", "m", "b", "e", "r", ".", "i", "n", "t", "(", "{", "\"", "m", "i", "n", "\"", ":", "1", ",", "\"", "m", "a", "x", "\"", ":", "1", "}", ")", "}", "}">>)>> >>)>>,
           <<<<"n">>, Str(<<"{", "{", "f", "a", "k", "e", "r", ".", "n", "u", "m", "b", "e", "r", ".", "i", "n", "t", "(", " ", "{", "\"", "m", "i", "n", "\"", ":", " ", "1", ",", " ", "\"", "m", "a", "x", "\"", ":", " ", "1", "}", " ", ")", "}", "}">>)>> >>)

\* {"s":["{{faker.string.uuid}} ","x{{faker.string.uuid}}","{{ faker.string.uuid }}",
\*       "{{faker.string.uuid(}}","{{faker.string.uuid}}}}","{faker.string.uuid}",
\*       "{{}}","{{faker.number.int(\n1)}}","{{faker.number.int(1)}}{{faker.number.int(1)}}"]}
TemplateStrings ==
    Obj(<< <<<<"s">>, Arr(<<Str(<<"{", "{", "f", "a", "k", "e", "r", ".", "s", "t", "r", "i", "n", "g", ".", "u", "u", "i", "d", "}", "}", " ">>), Str(<<"x", "{", "{", "f", "a", "k", "e", "r", ".", "s", "t", "r", "i", "n", "g", ".", "u", "u", "i", "d", "}", "}">>),
                         Str(<<"{", "{", " ", "f", "a", "k", "e", "r", ".", "s", "t", "r", "i", "n", "g", ".", "u", "u", "i", "d", " ", "}", "}">>), Str(<<"{", "{", "f", "a", "k", "e", "r", ".", "s", "t", "r", "i", "n", "g", ".", "u", "u", "i", "d", "(", "}", "}">>),
                         Str(<<"{", "{", "f", "a", "k", "e", "r", ".", "s", "t", "r", "i", "n", "g", ".", "u", "u", "i", "d", "}", "}", "}", "}">>), Str(<<"{", "f", "a", "k", "e", "r", ".", "s", "t", "r", "i", "n", "g", ".", "u", "u", "i", "d", "}">>),
                         Str(<<"{", "{", "}", "}">>),
                         Str(<<"{", "{", "f", "a", "k", "e", "r", ".", "n", "u", "m", "b", "e", "r", ".", "i", "n", "t", "(">> \o <<"\n">> \o <<"1", ")", "}", "}">>),
                         Str(<<"{", "{", "f", "a", "k", "e", "r", ".", "n", "u", "m", "b", "e", "r", ".", "i", "n", "t", "(", "1", ")", "}", "}", "{", "{", "f", "a", "k", "e", "r", ".", "n", "u", "m", "b", "e", "r", ".", "i", "n", "t", "(", "1", ")", "}", "}">>)>>)>> >>)

\* the templates a store of the model holds
Templates ==
    { TemplateIdN, TemplateUnknown, TemplatePlain, TemplateBigInt, TemplateArgs,
      TemplateNested, TemplateProto, TemplateFail, TemplateBlank,
      TemplateProtoArgs, TemplateStrings }

\* the template as the store returns it: its arrays and objects are created
loaded(template) == store(St(<<>>, <<>>, <<>>), template)

\* the i-th value the node of the heap holds
child(node, i) == IF node.t = "array" THEN node.v[i] ELSE node.v[i][2]

\* the heap once the value a call before returned is dropped by its caller:
\* what the first n addresses, the stored template's, do not refer to is
\* unreachable
release(h, n) ==
    IF \A a \in 1..n : \A i \in 1..Len(h[a].v) :
           child(h[a], i).t = "ref" => child(h[a], i).v <= n
    THEN SubSeq(h, 1, n)
    ELSE h

\* number of generator invocations one walk of the structure makes
walkCalls(h, structure) ==
    Len(walkCopyH(St(h, <<>>, Null), structure, <<>>).calls)

GenInit ==
    /\ profiles = ProfileRows
    /\ mock_endpoints = {}
    /\ pc = "idle"
    /\ request = NoRequest
    /\ userId = <<>>
    /\ failure = "none"
    /\ supplied = <<>>
    /\ found = Found(<<>>)
    /\ rndUsed = <<>>
    /\ genCalls = 0
    /\ responses = <<>>
    /\ prev = <<>>
    /\ gTemplate \in Templates
    /\ gHeap = loaded(gTemplate).h
    /\ gStructure = loaded(gTemplate).out
    /\ gPc = "idle"
    /\ gIsArray = FALSE
    /\ gArrayCount = 1
    /\ gI = 0
    /\ gResults = Null
    /\ gDraws = <<>>
    /\ gCalls = <<>>
    /\ gReturn = <<>>
    /\ MatchIdle
    /\ ConcIdle
    /\ CrudIdle
    /\ PagesIdle

\* the frame of a new call
enter(isArray, arrayCount) ==
    /\ gPc \in {"idle", "returned"}
    /\ gIsArray' = isArray
    /\ gArrayCount' = arrayCount
    /\ gI' = 0
    /\ gDraws' = <<>>
    /\ gCalls' = <<>>
    /\ gReturn' = <<>>
    /\ UNCHANGED <<gTemplate, gStructure>>
    /\ UNCHANGED notGen

\* generateMockData(structure, true, arrayCount) up to the loop:
\* const results = []
CallArray(arrayCount) ==
    /\ enter(TRUE, arrayCount)
    /\ gPc' = "loop"
    /\ \E st \in {newArr(St(release(gHeap, Len(loaded(gTemplate).h)), <<>>, <<>>))} :
          /\ gHeap' = st.h
          /\ gResults' = st.out

\* generateMockData(structure, false, arrayCount) up to the else branch
CallSingle(arrayCount) ==
    /\ enter(FALSE, arrayCount)
    /\ gPc' = "single"
    /\ gHeap' = release(gHeap, Len(loaded(gTemplate).h))
    /\ gResults' = Null

\* the state st after a step that drew d
stepped(st, d) ==
    /\ gHeap' = st.h
    /\ gCalls' = st.calls
    /\ gDraws' = gDraws \o d
    /\ UNCHANGED <<gTemplate, gStructure, gIsArray, gArrayCount>>
    /\ UNCHANGED notGen

\* one iteration of the loop: i < Math.max(1, arrayCount), results.push(...)
LoopPush ==
    /\ gPc = "loop"
    /\ gI < max(1, gArrayCount)
    /\ \E d \in [1..walkCalls(gHeap, gStructure) -> RndVals] :
          stepped(pushH(St(gHeap, gCalls, gResults),
                        walkCopyH(St(gHeap, gCalls, gResults), gStructure,
                                  gDraws \o d)), d)
    /\ gI' = gI + 1
    /\ UNCHANGED <<gPc, gResults, gReturn>>

\* the loop has ended: return results
LoopReturn ==
    /\ gPc = "loop"
    /\ ~(gI < max(1, gArrayCount))
    /\ gPc' = "returned"
    /\ gReturn' = <<gResults>>
    /\ UNCHANGED <<gTemplate, gHeap, gStructure, gIsArray, gArrayCount, gI,
                   gResults, gDraws, gCalls>>
    /\ UNCHANGED notGen

\* the state st after the else branch, which returns st.out
returnedSingle(st, d) ==
    /\ stepped(st, d)
    /\ gReturn' = <<st.out>>

\* the else branch: return processValue(JSON.parse(JSON.stringify(structure)))
Single ==
    /\ gPc = "single"
    /\ \E d \in [1..walkCalls(gHeap, gStructure) -> RndVals] :
          returnedSingle(walkCopyH(St(gHeap, gCalls, Null), gStructure, d), d)
    /\ gPc' = "returned"
    /\ UNCHANGED <<gI, gResults>>

GenNext ==
    \/ \E arrayCount \in ArrayCounts : CallArray(arrayCount)
    \/ \E arrayCount \in ArrayCounts : CallSingle(arrayCount)
    \/ LoopPush
    \/ LoopReturn
    \/ Single

GenSpec == GenInit /\ [][GenNext]_vars

----------------------------------------------------------------------------
(* Properties of the template resolver and the structural walker *)

\* the match m of a string leaf names a generator the library has
resolvable(m) == m.matched /\ getFakerFunction(m.fakerPath) # <<>>

\* the argument text of the match m is present and not blank
hasArgText(m) == m.hasArgs /\ ~trimIsEmpty(m.argsString)

\* the leaf with match m fails: its non-blank argument text is not valid
\* JSON, or the generator it names throws when invoked
failedLeaf(m) ==
    /\ resolvable(m)
    /\ IF hasArgText(m)
       THEN \/ JSONparse(m.argsString) = <<>>
            \/ \A r \in RndVals :
                  invoke(getFakerFunction(m.fakerPath)[1],
                         JSONparse(m.argsString), r).threw
       ELSE \A r \in RndVals :
               invoke(getFakerFunction(m.fakerPath)[1], <<>>, r).threw

\* the structure has a leaf that fails
RECURSIVE hasFailedLeaf(_)
hasFailedLeaf(value) ==
    IF value.t = "string" THEN failedLeaf(templateMatch(value.v))
    ELSE IF value.t = "array"
    THEN \E i \in 1..Len(value.v) : hasFailedLeaf(value.v[i])
    ELSE IF value.t = "object"
    THEN \E i \in 1..Len(value.v) : hasFailedLeaf(value.v[i][2])
    ELSE FALSE

\* 'Error: Faker (<path>)'
failedMarker(path) == Str(<<"E", "r", "r", "o", "r", ":", " ", "F", "a", "k", "e", "r", " ", "(">> \o path \o <<")">>)

\* the string is one of the two marker strings
isMarker(value) ==
    /\ value.t = "string"
    /\ startsWith(value.v, <<"E", "r", "r", "o", "r", ":", " ">>)

\* value is what a walk makes of the template when every failed leaf becomes
\* its marker and the walk goes on around it: arrays keep their length,
\* objects their keys, a leaf that is no template its value, and a leaf whose
\* generator returned holds no marker
RECURSIVE walkedAround(_, _)
walkedAround(template, value) ==
    IF template.t = "string"
    THEN IF failedLeaf(templateMatch(template.v))
         THEN value = failedMarker(templateMatch(template.v).fakerPath)
         ELSE IF ~templateMatch(template.v).matched THEN value = template
         ELSE IF resolvable(templateMatch(template.v)) THEN ~isMarker(value)
         ELSE isMarker(value)
    ELSE IF template.t \in {"array", "object"}
    THEN /\ value.t = template.t
         /\ Len(value.v) = Len(template.v)
         /\ \A i \in 1..Len(template.v) :
               IF template.t = "array"
               THEN walkedAround(template.v[i], value.v[i])
               ELSE /\ value.v[i][1] = template.v[i][1]
                    /\ walkedAround(template.v[i][2], value.v[i][2])
    ELSE value = template

\* the data is the expansion of the definition m with every failed leaf
\* marked: one walk, or one walk for each of the repeated copies
markedData(m, data) ==
    IF m.is_array
    THEN /\ data.t = "array"
         /\ Len(data.v) = (IF m.array_count > 1 THEN m.array_count ELSE 1)
         /\ \A i \in 1..Len(data.v) : walkedAround(m.response_structure, data.v[i])
    ELSE walkedAround(m.response_structure, data)

\* C11: when a leaf of the matched definition's template fails (argument text
\* that is not valid JSON, or a generator that throws), the request is still
\* answered with the stored status code, and the body holds the marker
\* 'Error: Faker (<path>)' at that leaf and the walk's values at every other
\* leaf of every copy.
C11_FailedLeafMarker ==
    (Resolved /\ hasFailedLeaf(found.mock[1].response_structure)) =>
        /\ Len(responses) = 1
        /\ status = found.mock[1].status_code
        /\ markedData(found.mock[1], responses[1].json)

\* the part of C11 that is about the walk alone
C11_WalkGoesOn ==
    (Resolved /\ hasFailedLeaf(found.mock[1].response_structure)) =>
        markedData(found.mock[1],
                   generateMockData(found.mock[1].response_structure,
                                    found.mock[1].is_array,
                                    found.mock[1].array_count, rndUsed).v)

\* a definition with a failed leaf was served with its stored status
C11_ServedCase ==
    /\ Resolved
    /\ hasFailedLeaf(found.mock[1].response_structure)
    /\ Len(responses) = 1
    /\ status = found.mock[1].status_code
    /\ found.mock[1].is_array

\* no string leaf of the structure is a whole-string generator template
RECURSIVE plain(_)
plain(value) ==
    IF value.t = "string" THEN ~templateMatch(value.v).matched
    ELSE IF value.t = "array"
    THEN \A i \in 1..Len(value.v) : plain(value.v[i])
    ELSE IF value.t = "object"
    THEN \A i \in 1..Len(value.v) : plain(value.v[i][2])
    ELSE TRUE

\* the call of generateMockData has returned; the JSON value it returned
returnedValue == valueAt(gHeap, gReturn[1])

\* C12: for a template without any whole-string generator template, the call
\* in non-array mode returns a value deep-equal to the template (same keys,
\* same arrays, same scalars) and invokes no generator.
C12_IdentityOnPlain ==
    (gPc = "returned" /\ ~gIsArray /\ plain(gTemplate)) =>
        /\ returnedValue = gTemplate
        /\ gCalls = <<>>

\* some object of the structure has the key __proto__
RECURSIVE hasProtoKey(_)
hasProtoKey(value) ==
    IF value.t = "array"
    THEN \E i \in 1..Len(value.v) : hasProtoKey(value.v[i])
    ELSE IF value.t = "object"
    THEN \E i \in 1..Len(value.v) :
            \/ value.v[i][1] = <<"_", "_", "p", "r", "o", "t", "o", "_", "_">>
            \/ hasProtoKey(value.v[i][2])
    ELSE FALSE

\* C12 holds of the templates without a key __proto__
C12_IdentityWithoutProto ==
    (gPc = "returned" /\ ~gIsArray /\ plain(gTemplate) /\ ~hasProtoKey(gTemplate)) =>
        /\ returnedValue = gTemplate
        /\ gCalls = <<>>

\* a nested plain template was returned as it is
C12_NestedCase ==
    /\ gPc = "returned"
    /\ ~gIsArray
    /\ gTemplate = TemplateNested
    /\ returnedValue = TemplateNested

\* the leaf with match m has its generator invoked: the path resolves and the
\* argument text, when there is some, is valid JSON
invokedLeaf(m) ==
    /\ resolvable(m)
    /\ hasArgText(m) => JSONparse(m.argsString) # <<>>

RECURSIVE invokedLeaves(_)
RECURSIVE invokedInItems(_)
RECURSIVE invokedInMembers(_)

\* number of leaves of the structure whose generator one walk invokes
invokedLeaves(value) ==
    IF value.t = "string"
    THEN IF invokedLeaf(templateMatch(value.v)) THEN 1 ELSE 0
    ELSE IF value.t = "array" THEN invokedInItems(value.v)
    ELSE IF value.t = "object" THEN invokedInMembers(value.v)
    ELSE 0

invokedInItems(items) ==
    IF items = <<>> THEN 0
    ELSE invokedLeaves(Head(items)) + invokedInItems(Tail(items))

invokedInMembers(pairs) ==
    IF pairs = <<>> THEN 0
    ELSE invokedLeaves(Head(pairs)[2]) + invokedInMembers(Tail(pairs))

\* the array the call returned, when it returned one
returnedArray == gHeap[gReturn[1].v]

\* C13: in array mode the call returns an array of exactly max(1, arrayCount)
\* elements, for every arrayCount, zero and negative ones too; in non-array
\* mode it returns one expansion of the template, an object made by one walk,
\* whatever arrayCount is.
C13_ClampedCount ==
    gPc = "returned" =>
        IF gIsArray
        THEN /\ gReturn[1].t = "ref"
             /\ returnedArray.t = "array"
             /\ Len(returnedArray.v) = (IF gArrayCount > 1 THEN gArrayCount ELSE 1)
        ELSE /\ returnedValue.t = "object"
             /\ Len(gCalls) = invokedLeaves(gTemplate)
             /\ returnedValue = generateMockData(gTemplate, FALSE, 1, gDraws).v

\* C13 witness: a call in array mode with a negative arrayCount returned an
\* array of one element
C13_Witness ==
    /\ gPc = "returned"
    /\ gIsArray
    /\ gArrayCount < 0
    /\ Len(returnedArray.v) = 1

\* arrayCount 0 in array mode
C13_ZeroCase ==
    /\ gPc = "returned"
    /\ gIsArray
    /\ gArrayCount = 0
    /\ Len(returnedArray.v) = 1

\* arrayCount above 1 in array mode, and in non-array mode
C13_ManyCase ==
    /\ gPc = "returned"
    /\ gArrayCount > 1
    /\ IF gIsArray THEN Len(returnedArray.v) = gArrayCount
       ELSE Len(gCalls) = 2 /\ returnedValue.t = "object"

RECURSIVE invokedMatches(_)
RECURSIVE invokedInItemsOf(_)
RECURSIVE invokedInMembersOf(_)

\* the matches of the leaves one walk of the structure invokes, in the order
\* of the walk
invokedMatches(value) ==
    IF value.t = "string"
    THEN IF invokedLeaf(templateMatch(value.v))
         THEN <<templateMatch(value.v)>> ELSE <<>>
    ELSE IF value.t = "array" THEN invokedInItemsOf(value.v)
    ELSE IF value.t = "object" THEN invokedInMembersOf(value.v)
    ELSE <<>>

invokedInItemsOf(items) ==
    IF items = <<>> THEN <<>>
    ELSE invokedMatches(Head(items)) \o invokedInItemsOf(Tail(items))

invokedInMembersOf(pairs) ==
    IF pairs = <<>> THEN <<>>
    ELSE invokedMatches(Head(pairs)[2]) \o invokedInMembersOf(Tail(pairs))

\* the generator paths of the leaves one walk of the structure invokes
invokedPaths(value) ==
    [k \in 1..Len(invokedMatches(value)) |-> invokedMatches(value)[k].fakerPath]

\* the addresses of the arrays and objects the value x is made of
RECURSIVE reachable(_, _)
reachable(h, x) ==
    IF x.t # "ref" THEN {}
    ELSE {x.v} \cup UNION {reachable(h, child(h[x.v], i)) : i \in 1..Len(h[x.v].v)}

\* the paths of the invocations from..to of the call
pathsOfCalls(from, to) == [k \in 1..(to - from + 1) |-> gCalls[from + k - 1].path]

\* C14: in array mode each element comes from a walk of its own: the leaves
\* the walk invokes are invoked once for each element, in the order of the
\* walk; an element holds the results of its own invocations; and no array or
\* object belongs to two elements, or to an element and the stored template.
C14_IndependentElements ==
    (gPc = "returned" /\ gIsArray) =>
        \A i \in 1..Len(returnedArray.v) :
            /\ Len(gCalls) = Len(returnedArray.v) * invokedLeaves(gTemplate)
            /\ pathsOfCalls((i - 1) * invokedLeaves(gTemplate) + 1,
                            i * invokedLeaves(gTemplate))
                   = invokedPaths(gTemplate)
            /\ valueAt(gHeap, returnedArray.v[i])
                   = processValue(gTemplate, 0,
                                  SubSeq(gDraws, (i - 1) * invokedLeaves(gTemplate) + 1,
                                         i * invokedLeaves(gTemplate))).v
            /\ returnedArray.v[i].t = "ref"
            /\ reachable(gHeap, returnedArray.v[i]) \cap reachable(gHeap, gStructure) = {}
            /\ \A j \in 1..Len(returnedArray.v) :
                  i # j => reachable(gHeap, returnedArray.v[i])
                              \cap reachable(gHeap, returnedArray.v[j]) = {}

\* C14 witness: two elements of a template with two invoked leaves, four
\* invocations, and the elements differ
C14_Witness ==
    /\ gPc = "returned"
    /\ gIsArray
    /\ gTemplate = TemplateBlank
    /\ Len(returnedArray.v) = 2
    /\ Len(gCalls) = 4
    /\ valueAt(gHeap, returnedArray.v[1]) # valueAt(gHeap, returnedArray.v[2])

\* C15: a call of generateMockData writes to no array or object of its
\* structure argument: at every step of every call, in array or non-array
\* mode, the stored template denotes the JSON value it was stored with,
\* template strings included.
C15_TemplateNotMutated ==
    /\ valueAt(gHeap, gStructure) = gTemplate
    /\ SubSeq(gHeap, 1, Len(loaded(gTemplate).h)) = loaded(gTemplate).h

\* C15 witness: a call in array mode over a template with a failing and a
\* succeeding leaf has returned generated values, and the stored template
\* still holds its template strings
C15_Witness ==
    /\ gPc = "returned"
    /\ gIsArray
    /\ gTemplate = TemplateFail
    /\ Len(gCalls) >= 2
    /\ valueAt(gHeap, returnedArray.v[1]) # gTemplate
    /\ valueAt(gHeap, gStructure) = TemplateFail

\* the same in non-array mode
C15_SingleCase ==
    /\ gPc = "returned"
    /\ ~gIsArray
    /\ gTemplate = TemplateIdN
    /\ returnedValue # gTemplate
    /\ valueAt(gHeap, gStructure) = TemplateIdN

\* the match of the leaf of the template that made invocation c of the call:
\* every walk invokes the same leaves in the same order
leafOfCall(c) ==
    invokedMatches(gTemplate)[((c - 1) % Len(invokedMatches(gTemplate))) + 1]

\* the string is {{path}}, {{path()}} or {{path(w)}} for a path the library
\* resolves to a generator and a text w of characters of white only
blankForm(s, white) ==
    /\ Len(s) >= 5
    /\ startsWith(s, <<"{", "{">>)
    /\ endsWith(s, <<"}", "}">>)
    /\ \E n \in 1..(Len(s) - 4) :
          /\ \A i \in 3..(2 + n) : s[i] \in WordChars \cup {"."}
          /\ getFakerFunction(SubSeq(s, 3, 2 + n)) # <<>>
          /\ \/ n = Len(s) - 4
             \/ /\ n + 2 <= Len(s) - 4
                /\ s[3 + n] = "("
                /\ s[Len(s) - 2] = ")"
                /\ \A i \in (4 + n)..(Len(s) - 3) : s[i] \in white

RECURSIVE blankLeaves(_, _)
RECURSIVE blankInItems(_, _)
RECURSIVE blankInMembers(_, _)

\* number of leaves of the structure of that form
blankLeaves(value, white) ==
    IF value.t = "string" THEN (IF blankForm(value.v, white) THEN 1 ELSE 0)
    ELSE IF value.t = "array" THEN blankInItems(value.v, white)
    ELSE IF value.t = "object" THEN blankInMembers(value.v, white)
    ELSE 0

blankInItems(items, white) ==
    IF items = <<>> THEN 0
    ELSE blankLeaves(Head(items), white) + blankInItems(Tail(items), white)

blankInMembers(pairs, white) ==
    IF pairs = <<>> THEN 0
    ELSE blankLeaves(Head(pairs)[2], white) + blankInMembers(Tail(pairs), white)

\* the invocation passed no argument
noArgument(call) == call.args = <<>>

\* number of walks of the template the returned call made
walks == IF gIsArray THEN Len(returnedArray.v) ELSE 1

\* C16 as stated: every leaf {{path}}, {{path()}} or {{path(w)}} with only
\* white space w, for a resolvable path, invokes its generator in every walk,
\* with no argument.
C16_AnyWhitespace ==
    /\ \A c \in 1..Len(gCalls) :
          /\ gCalls[c].path = leafOfCall(c).fakerPath
          /\ ~hasArgText(leafOfCall(c)) => gCalls[c].args = <<>>
    /\ gPc = "returned" =>
          Len(SelectSeq(gCalls, noArgument)) = walks * blankLeaves(gTemplate, TrimBlank)

\* C16 amended: the same for white space w without line terminators (a
\* string with a line terminator between the parentheses is no template: it
\* is returned as it is).  Every invocation made for a leaf without argument
\* text passes no argument at all: not an empty string, null or an empty
\* object.
C16_BlankIsNoArgument ==
    /\ \A c \in 1..Len(gCalls) :
          /\ gCalls[c].path = leafOfCall(c).fakerPath
          /\ ~hasArgText(leafOfCall(c)) => gCalls[c].args = <<>>
    /\ gPc = "returned" =>
          Len(SelectSeq(gCalls, noArgument))
              = walks * blankLeaves(gTemplate, TrimBlank \ LineTerminators)

\* C16 witness: {{faker.string.uuid}} and {{faker.string.uuid()}} were both
\* invoked without argument
C16_Witness ==
    /\ gPc = "returned"
    /\ gTemplate = TemplateBlank
    /\ Len(gCalls) >= 2
    /\ ~leafOfCall(1).hasArgs
    /\ leafOfCall(2).hasArgs
    /\ leafOfCall(2).argsString = <<>>
    /\ gCalls[1] = Call(<<"f", "a", "k", "e", "r", ".", "s", "t", "r", "i", "n", "g", ".", "u", "u", "i", "d">>, <<>>)
    /\ gCalls[2] = Call(<<"f", "a", "k", "e", "r", ".", "s", "t", "r", "i", "n", "g", ".", "u", "u", "i", "d">>, <<>>)

\* the same with white space between the parentheses
C16_WhitespaceCase ==
    /\ gPc = "returned"
    /\ gTemplate = TemplateFail
    /\ leafOfCall(2).hasArgs
    /\ leafOfCall(2).argsString = <<" ", "\f">>
    /\ gCalls[2] = Call(<<"f", "a", "k", "e", "r", ".", "s", "t", "r", "i", "n", "g", ".", "u", "u", "i", "d">>, <<>>)

RECURSIVE natText(_)
\* the decimal digits of the natural number n
natText(n) ==
    IF n < 10 THEN <<DigitChars[n + 1]>>
    ELSE natText(n \div 10) \o <<DigitChars[(n % 10) + 1]>>

RECURSIVE jsonText(_)
RECURSIVE textOfItems(_)
RECURSIVE textOfMembers(_)

\* the compact JSON text of a value of numbers, strings without escapes,
\* booleans, null, arrays and objects
jsonText(value) ==
    IF value.t = "number"
    THEN IF value.v < 0 THEN <<"-">> \o natText(0 - value.v) ELSE natText(value.v)
    ELSE IF value.t = "string" THEN <<"\"">> \o value.v \o <<"\"">>
    ELSE IF value.t = "boolean" THEN (IF value.v THEN <<"t", "r", "u", "e">> ELSE <<"f", "a", "l", "s", "e">>)
    ELSE IF value.t = "array" THEN <<"[">> \o textOfItems(value.v) \o <<"]">>
    ELSE IF value.t = "object" THEN <<"{">> \o textOfMembers(value.v) \o <<"}">>
    ELSE <<"n", "u", "l", "l">>

textOfItems(items) ==
    IF items = <<>> THEN <<>>
    ELSE jsonText(Head(items))
         \o (IF Tail(items) = <<>> THEN <<>> ELSE <<",">> \o textOfItems(Tail(items)))

textOfMembers(pairs) ==
    IF pairs = <<>> THEN <<>>
    ELSE <<"\"">> \o Head(pairs)[1] \o <<"\"", ":">> \o jsonText(Head(pairs)[2])
         \o (IF Tail(pairs) = <<>> THEN <<>> ELSE <<",">> \o textOfMembers(Tail(pairs)))

notBlank(c) == c \notin Blank

\* the argument text without its white space (no text of the model has
\* white space inside a string)
compact(text) == SelectSeq(text, notBlank)

RECURSIVE leafValues(_, _)
RECURSIVE leafValuesOfItems(_, _, _)
RECURSIVE leafValuesOfMembers(_, _)

\* for each leaf one walk of the template invokes, in the order of the walk:
\* <<x>> when the value has x at the position of the leaf, <<>> when the value
\* has nothing there
leafValues(template, value) ==
    IF template.t = "string"
    THEN IF invokedLeaf(templateMatch(template.v)) THEN << <<value>> >> ELSE <<>>
    ELSE IF template.t = "array" THEN leafValuesOfItems(template.v, value.v, 1)
    ELSE IF template.t = "object" THEN leafValuesOfMembers(template.v, value)
    ELSE <<>>

leafValuesOfItems(items, values, i) ==
    IF i > Len(items) THEN <<>>
    ELSE leafValues(items[i], values[i]) \o leafValuesOfItems(items, values, i + 1)

leafValuesOfMembers(pairs, value) ==
    IF pairs = <<>> THEN <<>>
    ELSE (IF hasKey(value, Head(pairs)[1])
          THEN leafValues(Head(pairs)[2], getKey(value, Head(pairs)[1]))
          ELSE [k \in 1..invokedLeaves(Head(pairs)[2]) |-> <<>>])
         \o leafValuesOfMembers(Tail(pairs), value)

\* what walk w of the returned call produced
walkValue(w) ==
    IF gIsArray THEN valueAt(gHeap, returnedArray.v[w]) ELSE returnedValue

\* what the generator of invocation c returned or threw
outcomeOfCall(c) ==
    invoke(getFakerFunction(gCalls[c].path)[1], gCalls[c].args, gDraws[c])

\* invocation c passed exactly one argument, the value of the argument text
\* of its leaf
parsedArgument(c) ==
    /\ Len(gCalls[c].args) = 1
    /\ jsonText(gCalls[c].args[1]) = compact(leafOfCall(c).argsString)

\* every invocation for a leaf with argument text passes the parsed text
argumentsParsed ==
    \A c \in 1..Len(gCalls) : hasArgText(leafOfCall(c)) => parsedArgument(c)

\* in every walk of the returned call, what the generator of a leaf with
\* argument text returned is the value at the position of that leaf
returnsPlaced ==
    \A w \in 1..walks : \A k \in 1..invokedLeaves(gTemplate) :
        (/\ hasArgText(invokedMatches(gTemplate)[k])
         /\ ~outcomeOfCall((w - 1) * invokedLeaves(gTemplate) + k).threw) =>
            leafValues(gTemplate, walkValue(w))[k]
                = <<outcomeOfCall((w - 1) * invokedLeaves(gTemplate) + k).value>>

\* C17: a leaf whose argument text is non-blank valid JSON has its generator
\* invoked once in each walk, with exactly one argument equal to the parsed
\* text, and the value the generator returned is the value at the leaf's
\* position of the result.
C17_ParsedArgumentPlaced ==
    /\ argumentsParsed
    /\ gPc = "returned" =>
          /\ Len(gCalls) = walks * invokedLeaves(gTemplate)
          /\ returnsPlaced

\* C17 holds of the templates without a key __proto__
C17_PlacedWithoutProto ==
    /\ argumentsParsed
    /\ (gPc = "returned" /\ ~hasProtoKey(gTemplate)) =>
          /\ Len(gCalls) = walks * invokedLeaves(gTemplate)
          /\ returnsPlaced

\* faker.number.int with min = max = 1 gave 1 in both elements
C17_FixedRangeCase ==
    /\ gPc = "returned"
    /\ gIsArray
    /\ gTemplate = TemplateArgs
    /\ walks = 2
    /\ gCalls[1].args = <<Obj(<< <<<<"m", "i", "n">>, Num(1)>>, <<<<"m", "a", "x">>, Num(1)>> >>)>>
    /\ getKey(walkValue(1), <<"x">>) = Num(1)
    /\ getKey(walkValue(2), <<"x">>) = Num(1)

\* the first n characters after {{ are the group ([\w.]+) of a match of
\* ^{{([\w.]+)(?:\((.*)\))?}}$ against all of s
patternWithPath(s, n) ==
    /\ n >= 1
    /\ Len(s) >= n + 4
    /\ s[1] = "{" /\ s[2] = "{"
    /\ s[Len(s) - 1] = "}" /\ s[Len(s)] = "}"
    /\ \A i \in 3..(2 + n) : s[i] \in WordChars \cup {"."}
    /\ \/ Len(s) = n + 4
       \/ /\ Len(s) >= n + 6
          /\ s[3 + n] = "("
          /\ s[Len(s) - 2] = ")"
          /\ \A i \in (4 + n)..(Len(s) - 3) : s[i] \notin LineTerminators

\* the entire string s matches ^{{([\w.]+)(?:\((.*)\))?}}$
wholePattern(s) == \E n \in 1..Len(s) : patternWithPath(s, n)

\* the group ([\w.]+) of the match of a string that matches
pathOfPattern(s) == SubSeq(s, 3, 2 + (CHOOSE n \in 1..Len(s) : patternWithPath(s, n)))

RECURSIVE patternLeaves(_)
RECURSIVE patternInItems(_)
RECURSIVE patternInMembers(_)

\* the string leaves of the structure that match the pattern, in the order of
\* the walk
patternLeaves(value) ==
    IF value.t = "string"
    THEN IF wholePattern(value.v) THEN <<value.v>> ELSE <<>>
    ELSE IF value.t = "array" THEN patternInItems(value.v)
    ELSE IF value.t = "object" THEN patternInMembers(value.v)
    ELSE <<>>

patternInItems(items) ==
    IF items = <<>> THEN <<>>
    ELSE patternLeaves(Head(items)) \o patternInItems(Tail(items))

patternInMembers(pairs) ==
    IF pairs = <<>> THEN <<>>
    ELSE patternLeaves(Head(pairs)[2]) \o patternInMembers(Tail(pairs))

\* the leaf s was taken as a generator call with result v: v is one of the two
\* markers for its path, or the generator at its path was invoked
treatedAsCall(s, v) ==
    \/ v = ErrorUnknownFakerPath(pathOfPattern(s))
    \/ v = ErrorFaker(pathOfPattern(s))
    \/ \E c \in 1..Len(gCalls) : gCalls[c].path = pathOfPattern(s)

RECURSIVE wholeStringOnly(_, _)

\* in the result value of one walk of the template, a string leaf that does
\* not match the pattern is unchanged and one that matches was taken as a
\* generator call
wholeStringOnly(template, value) ==
    IF template.t = "string"
    THEN IF wholePattern(template.v) THEN treatedAsCall(template.v, value)
         ELSE value = template
    ELSE IF template.t = "array"
    THEN /\ value.t = "array"
         /\ Len(value.v) = Len(template.v)
         /\ \A i \in 1..Len(template.v) : wholeStringOnly(template.v[i], value.v[i])
    ELSE IF template.t = "object"
    THEN /\ value.t = "object"
         /\ \A i \in 1..Len(template.v) :
               hasKey(value, template.v[i][1]) =>
                   wholeStringOnly(template.v[i][2], getKey(value, template.v[i][1]))
    ELSE value = template

\* C18: a string leaf is taken as a generator call exactly when the entire
\* string matches ^{{([\w.]+)(?:\((.*)\))?}}$: every invocation is for the
\* path of a leaf that matches, a walk makes at most one invocation for each
\* such leaf, a leaf that matches comes back as a marker or a generated value,
\* and every other string leaf comes back unchanged.
C18_WholeStringPattern ==
    /\ \A c \in 1..Len(gCalls) :
          \E k \in 1..Len(patternLeaves(gTemplate)) :
              pathOfPattern(patternLeaves(gTemplate)[k]) = gCalls[c].path
    /\ gPc = "returned" =>
          /\ Len(gCalls) <= walks * Len(patternLeaves(gTemplate))
          /\ \A w \in 1..walks : wholeStringOnly(gTemplate, walkValue(w))

\* two walks of the template of strings with text around or inside the
\* braces: no invocation, the eight strings that do not match are unchanged
\* and the one that matches as a whole, {{faker.number.int(1)}}{{faker.number.int(1)}},
\* is the marker of its path
C18_Witness ==
    /\ gPc = "returned"
    /\ gIsArray
    /\ walks = 2
    /\ gTemplate = TemplateStrings
    /\ gCalls = <<>>
    /\ Len(patternLeaves(gTemplate)) = 1
    /\ \A i \in 1..8 :
          getKey(walkValue(2), <<"s">>).v[i] = getKey(gTemplate, <<"s">>).v[i]
    /\ getKey(walkValue(2), <<"s">>).v[9] = ErrorFaker(<<"f", "a", "k", "e", "r", ".", "n", "u", "m", "b", "e", "r", ".", "i", "n", "t">>)

\* a walk that invokes the two leaves that match and leaves the string with
\* a line terminator between the parentheses unchanged
C18_MixedCase ==
    /\ gPc = "returned"
    /\ gTemplate = TemplateBlank
    /\ Len(gCalls) = 2 * walks
    /\ Len(patternLeaves(gTemplate)) = 2
    /\ getKey(walkValue(1), <<"c">>) = getKey(gTemplate, <<"c">>)

----------------------------------------------------------------------------
(* step 3 of findMatchingMock for one candidate, taken by itself *)

\* mock.projects of the candidates: no project, a project without base
\* path ('' as well), and base paths with and without the slashes
BasePaths ==
    { NoBase, <<<<>>>>, <<<<"/", "s", "h", "o", "p">>>>, <<<<"s", "h", "o", "p", "/">>>>, <<<<"/", "s", "h", "o", "p", "/">>>>, <<<<"s", "h", "o", "p">>>>, <<<<"/">>>> }

PathTemplates ==
    { <<"/">>, <<"/", "i", "t", "e", "m", "s", "/", ":", "i", "d">>, <<"/", "i", "t", "e", "m", "s", "/">>, <<"i", "t", "e", "m", "s">>, <<"/", ":", "k", "i", "n", "d", "/", ":", "i", "d">>, <<"/", "b", "a", "d", "/", ":">>,
      <<"/", "/", "i", "t", "e", "m", "s">>, <<"/", "i", "t", "e", "m", "s", "/", "/">> }

MatchSlugs ==
    Slugs \cup { <<<<"s", "h", "o", "p">>, <<"i", "t", "e", "m", "s">>, <<"a", "c", "t", "i", "v", "e">>>>, <<<<"s", "h", "o", "p">>, <<"i", "t", "e", "m", "s">>>> }

\* the candidate rows
MatchMocks ==
    { Row(1, "u1", p, <<"G", "E", "T">>, b, 200, TemplatePlain, FALSE, 1) :
          b \in BasePaths, p \in PathTemplates }

MatchInit ==
    /\ profiles = ProfileRows
    /\ mock_endpoints = {}
    /\ pc = "idle"
    /\ request = NoRequest
    /\ userId = <<>>
    /\ failure = "none"
    /\ supplied = <<>>
    /\ found = Found(<<>>)
    /\ rndUsed = <<>>
    /\ genCalls = 0
    /\ responses = <<>>
    /\ prev = <<>>
    /\ GenIdle
    /\ ConcIdle
    /\ CrudIdle
    /\ PagesIdle
    /\ mMock \in MatchMocks
    /\ mSlugParts \in MatchSlugs
    /\ mPc = "loaded"
    /\ mFullPathTemplate = <<>>
    /\ mResult = NoResult
    /\ mReturn = <<>>

\* the normalisation of the two paths and the composition of fullPathTemplate
ComposePattern ==
    /\ mPc = "loaded"
    /\ mFullPathTemplate' = fullPathTemplate(mMock.projects, mMock.path_template)
    /\ mPc' = "composed"
    /\ UNCHANGED <<mMock, mSlugParts, mResult, mReturn>>
    /\ UNCHANGED notMatch

\* const result = matcher(normalizedReqPath)
MatchPath ==
    /\ mPc = "composed"
    /\ mResult' = matcher(mFullPathTemplate, normalizedReqPath(mSlugParts))
    /\ mPc' = IF mResult'.threw THEN "threw" ELSE "matched"
    /\ UNCHANGED <<mMock, mSlugParts, mFullPathTemplate, mReturn>>
    /\ UNCHANGED notMatch

\* if (result) return mock
ReturnMock ==
    /\ mPc = "matched"
    /\ mResult.result
    /\ mReturn' = <<mMock>>
    /\ mPc' = "returned"
    /\ UNCHANGED <<mMock, mSlugParts, mFullPathTemplate, mResult>>
    /\ UNCHANGED notMatch

\* the loop ends without a match: return null
ReturnNull ==
    /\ mPc = "matched"
    /\ ~mResult.result
    /\ mReturn' = <<>>
    /\ mPc' = "returned"
    /\ UNCHANGED <<mMock, mSlugParts, mFullPathTemplate, mResult>>
    /\ UNCHANGED notMatch

MatchNext ==
    \/ ComposePattern
    \/ MatchPath
    \/ ReturnMock
    \/ ReturnNull

MatchSpec == MatchInit /\ [][MatchNext]_vars

\* the group base path is absent: the row has no project, or its project has
\* no base path (null or '')
absent(projects) == projects = <<>> \/ projects[1] = <<>>

\* p with a leading '/' ensured
withLeadingSlash(p) == IF p # <<>> /\ p[1] = "/" THEN p ELSE <<"/">> \o p

\* p without its trailing '/', unless p is exactly '/'
withoutTrailingSlash(p) ==
    IF Len(p) > 1 /\ p[Len(p)] = "/" THEN SubSeq(p, 1, Len(p) - 1) ELSE p

normalized(p) == withoutTrailingSlash(withLeadingSlash(p))

\* C19: the canonical pattern is the normalized path pattern alone when the
\* group base path is absent, the normalized group base path alone when the
\* normalized path pattern is exactly '/', and otherwise the normalized group
\* base path immediately followed by the normalized path pattern.
C19_CanonicalPattern ==
    mPc \in {"composed", "matched", "threw", "returned"} =>
        IF absent(mMock.projects)
        THEN mFullPathTemplate = normalized(mMock.path_template)
        ELSE IF normalized(mMock.path_template) = <<"/">>
        THEN mFullPathTemplate = normalized(mMock.projects[1])
        ELSE mFullPathTemplate =
                 normalized(mMock.projects[1]) \o normalized(mMock.path_template)

\* compose('/shop', '/items/:id') = '/shop/items/:id', and the request
\* /shop/items/active matches it
C19_Witness ==
    /\ mPc = "returned"
    /\ mMock.projects = <<<<"/", "s", "h", "o", "p">>>>
    /\ mMock.path_template = <<"/", "i", "t", "e", "m", "s", "/", ":", "i", "d">>
    /\ mFullPathTemplate = <<"/", "s", "h", "o", "p", "/", "i", "t", "e", "m", "s", "/", ":", "i", "d">>
    /\ mSlugParts = <<<<"s", "h", "o", "p">>, <<"i", "t", "e", "m", "s">>, <<"a", "c", "t", "i", "v", "e">>>>
    /\ mReturn = <<mMock>>

\* compose('/shop', '/') = '/shop'
C19_RootCase ==
    /\ mPc = "composed"
    /\ mMock.projects = <<<<"/", "s", "h", "o", "p">>>>
    /\ mMock.path_template = <<"/">>
    /\ mFullPathTemplate = <<"/", "s", "h", "o", "p">>

\* compose(null, '/items/') = '/items'
C19_AbsentCase ==
    /\ mPc = "composed"
    /\ mMock.projects = NoBase
    /\ mMock.path_template = <<"/", "i", "t", "e", "m", "s", "/">>
    /\ mFullPathTemplate = <<"/", "i", "t", "e", "m", "s">>

\* what the caller of findMatchingMock can read of the captured values: the
\* params of the returned value, none when it has no params
readableParams(returned) ==
    IF "params" \in DOMAIN returned THEN returned.params ELSE <<>>

\* C20: when the candidate matches, what findMatchingMock returns carries,
\* with the matched row, the values the named segments of the pattern
\* captured, so that its caller can read them.
C20_ParamsReturned ==
    (mPc = "returned" /\ mReturn # <<>>) =>
        readableParams(mReturn[1]) = mResult.params

\* the matcher captured id = 'active' for /items/:id and /items/active, and
\* the returned row is the stored row, without the captured value
C20_CapturedAndDropped ==
    /\ mPc = "returned"
    /\ mMock.projects = NoBase
    /\ mMock.path_template = <<"/", "i", "t", "e", "m", "s", "/", ":", "i", "d">>
    /\ mSlugParts = <<<<"i", "t", "e", "m", "s">>, <<"a", "c", "t", "i", "v", "e">>>>
    /\ mResult.params = << <<<<"i", "d">>, <<"a", "c", "t", "i", "v", "e">>>> >>
    /\ mReturn = <<mMock>>

----------------------------------------------------------------------------
(* handleRequest, several calls running concurrently in one process: the   *)
(* calls interleave at their two awaits (the profile query and the mocks   *)
(* query); what follows the mocks query runs without suspension            *)

\* the loop of generateMockData from iteration i on; st.out is results
RECURSIVE loopH(_, _, _, _, _)
loopH(st, structure, i, n, rnd) ==
    IF i >= n THEN st
    ELSE loopH(pushH(st, walkCopyH(st, structure, rnd)), structure, i + 1, n, rnd)

\* generateMockData with walks that expand the structure in place, without
\* the copy
RECURSIVE loopInPlaceH(_, _, _, _, _)
loopInPlaceH(st, structure, i, n, rnd) ==
    IF i >= n THEN st
    ELSE loopInPlaceH(pushH(st, walkInPlaceH(st, structure, rnd)), structure,
                      i + 1, n, rnd)

generateMockDataInPlaceH(st, structure, isArray, arrayCount, rnd) ==
    IF isArray THEN loopInPlaceH(newArr(st), structure, 0, max(1, arrayCount), rnd)
    ELSE walkInPlaceH(St(st.h, st.calls, Null), structure, rnd)

\* generateMockData(structure, isArray, arrayCount) on the heap of st
generateMockDataH(st, structure, isArray, arrayCount, rnd) ==
    IF isArray THEN loopH(newArr(st), structure, 0, max(1, arrayCount), rnd)
    ELSE walkCopyH(St(st.h, st.calls, Null), structure, rnd)

\* the stores and the request the concurrent calls are about: rows of one
\* tenant and one method, and a request with that method for that tenant or
\* for a prefix without profile
ConcStores ==
    { s \in Stores : \A m \in s : m.user_id = "u1" /\ m.http_method = <<"G", "E", "T">> }

ConcRequests ==
    { req \in Requests : req.api_route_prefix \in {"p1", "px"} /\ req.method = <<"G", "E", "T">> }

ConcInit ==
    /\ profiles = ProfileRows
    /\ mock_endpoints \in ConcStores
    /\ request \in ConcRequests
    /\ RouteIdle
    /\ GenIdle
    /\ MatchIdle
    /\ ConcIdle
    /\ CrudIdle
    /\ PagesIdle

\* a request arrives: its handleRequest runs up to the profile query
Arrive(r) ==
    /\ cPc[r] = "idle"
    /\ cPc' = [cPc EXCEPT ![r] = "profile"]
    /\ UNCHANGED <<cUserId, cHeap, cFound, cStructure, cDraws, cData, cResponses>>
    /\ UNCHANGED <<profiles, mock_endpoints, request>>
    /\ UNCHANGED notConc

\* call r ends with the result find of findMatchingMock, the structure and
\* the data st.out on the heap st.h, and its responses
answered(r, find, structure, st, data, rnd, resp) ==
    /\ cPc' = [cPc EXCEPT ![r] = "done"]
    /\ cFound' = [cFound EXCEPT ![r] = <<find>>]
    /\ cStructure' = [cStructure EXCEPT ![r] = structure]
    /\ cHeap' = st.h
    /\ cData' = [cData EXCEPT ![r] = data]
    /\ cDraws' = [cDraws EXCEPT ![r] = rnd]
    /\ cResponses' = [cResponses EXCEPT ![r] = resp]
    /\ UNCHANGED <<profiles, mock_endpoints, request>>
    /\ UNCHANGED notConc

\* findMatchingMock of call r returned null or threw
answeredWithout(r, find) ==
    answered(r, find, <<>>, St(cHeap, <<>>, Null), <<>>, <<>>, respond(find, <<>>))

\* the profile query of call r is answered by the store
ConcProfileReturns(r) ==
    /\ cPc[r] = "profile"
    /\ IF selectProfile(profiles, request.api_route_prefix) = <<>>
       THEN /\ answeredWithout(r, Found(<<>>))
            /\ UNCHANGED cUserId
       ELSE /\ cUserId' = [cUserId EXCEPT
                              ![r] = selectProfile(profiles, request.api_route_prefix)]
            /\ cPc' = [cPc EXCEPT ![r] = "mocks"]
            /\ UNCHANGED <<cHeap, cFound, cStructure, cDraws, cData, cResponses>>
            /\ UNCHANGED <<profiles, mock_endpoints, request>>
            /\ UNCHANGED notConc

\* the rest of handleRequest for the row mock, whose response_structure the
\* store client created at given.out: generateMockData, JSON.stringify and
\* the response
served(r, find, given, rnd, generated) ==
    answered(r, find, <<given.out>>, generated, <<generated.out>>, rnd,
             successResponse(JSONstringify(valueAt(generated.h, generated.out)),
                             find.mock[1].status_code))

\* the mocks query of call r is answered with the rows in some order; the
\* loop, the generation and the response follow without suspension
ConcMocksReturns(r) ==
    /\ cPc[r] = "mocks"
    /\ UNCHANGED cUserId
    /\ \E userMocksAndProjects \in
            Orders(selectMocks(mock_endpoints, cUserId[r][1], request.method)) :
         \E find \in {findFrom(userMocksAndProjects, 1, request.slug)} :
            IF find.threw \/ find.mock = <<>>
            THEN answeredWithout(r, find)
            ELSE \E rnd \in [1..generatorCalls(find, <<>>) -> RndVals] :
                 \E given \in {store(St(cHeap, <<>>, Null),
                                      find.mock[1].response_structure)} :
                    served(r, find, given, rnd,
                           generateMockDataH(St(given.h, <<>>, Null), given.out,
                                             find.mock[1].is_array,
                                             find.mock[1].array_count, rnd))

ConcNext ==
    \/ \E r \in Slots : Arrive(r)
    \/ \E r \in Slots : ConcProfileReturns(r)
    \/ \E r \in Slots : ConcMocksReturns(r)

ConcSpec == ConcInit /\ [][ConcNext]_vars

\* call r has built data
hasData(r) == cData[r] # <<>>

\* the arrays and objects of the data of call r
dataOf(r) == reachable(cHeap, cData[r][1])

\* the arrays and objects of the response_structure call r was given
structureOf(r) == reachable(cHeap, cStructure[r][1])

\* C22: however the calls interleave, the responses of each call are those
\* of the request run alone with the same answer of the store and the same
\* draws, and the data of a call shares no array or object with the data of
\* another call or with the response_structure of any call, which is left as
\* the store supplied it.
C22_Isolated ==
    /\ \A r \in Slots :
          cPc[r] = "done" => cResponses[r] = respond(cFound[r][1], cDraws[r])
    /\ \A r \in Slots :
          hasData(r) =>
              /\ valueAt(cHeap, cStructure[r][1])
                     = cFound[r][1].mock[1].response_structure
              /\ \A s \in Slots :
                    hasData(s) =>
                        /\ dataOf(r) \cap structureOf(s) = {}
                        /\ r # s => dataOf(r) \cap dataOf(s) = {}

\* two calls for the same row, which has generator templates and nested
\* structures, suspended together at the mocks query and then served, with
\* different draws
C22_Witness ==
    /\ \A r \in Slots : cPc[r] = "done" /\ hasData(r)
    /\ cFound["r1"] = cFound["r2"]
    /\ cFound["r1"][1].mock[1].is_array
    /\ cDraws["r1"] # cDraws["r2"]
    /\ cResponses["r1"] # cResponses["r2"]
    /\ dataOf("r1") # {}
    /\ dataOf("r2") # {}

\* the second call is answered while the first is suspended at its query
C22_OvertakenCase ==
    /\ cPc["r1"] = "mocks"
    /\ cPc["r2"] = "done"
    /\ hasData("r2")

----------------------------------------------------------------------------

(* The handlers of /api/project-mocks (POST) and /api/project-mocks/{id}   *)
(* (PUT, DELETE)                                                           *)

\* a JSON number that is not an integer: n + 1/2
Frac(n) == [t |-> "fraction", v |-> n]

HexChars ==
    { "0", "1", "2", "3", "4", "5", "6", "7", "8", "9",
      "a", "b", "c", "d", "e", "f", "A", "B", "C", "D", "E", "F" }

\* /^[0-9a-fA-F]{8}-[0-9a-fA-F]{4}-[0-9a-fA-F]{4}-[0-9a-fA-F]{4}-[0-9a-fA-F]{12}$/
\* .test(mockId)
isUuid(mockId) ==
    /\ Len(mockId) = 36
    /\ \A i \in 1..36 :
          IF i \in {9, 14, 19, 24} THEN mockId[i] = "-" ELSE mockId[i] \in HexChars

HttpMethods == { <<"G", "E", "T">>, <<"P", "O", "S", "T">>, <<"P", "U", "T">>, <<"D", "E", "L", "E", "T", "E">> }

\* the key is undefined in the body
undefinedKey(body, key) == ~hasKey(body, key)

\* z.number().int() accepts the value
isInt(value) == value.t = "number"

\* the checks of the seven keys of the schema
validName(body) ==
    /\ hasKey(body, <<"n", "a", "m", "e">>)
    /\ getKey(body, <<"n", "a", "m", "e">>).t = "string"
    /\ Len(getKey(body, <<"n", "a", "m", "e">>).v) >= 1

validPathTemplate(body) ==
    /\ hasKey(body, <<"p", "a", "t", "h", "_", "t", "e", "m", "p", "l", "a", "t", "e">>)
    /\ getKey(body, <<"p", "a", "t", "h", "_", "t", "e", "m", "p", "l", "a", "t", "e">>).t = "string"
    /\ Len(getKey(body, <<"p", "a", "t", "h", "_", "t", "e", "m", "p", "l", "a", "t", "e">>).v) >= 1
    /\ getKey(body, <<"p", "a", "t", "h", "_", "t", "e", "m", "p", "l", "a", "t", "e">>).v[1] = "/"

validHttpMethod(body) ==
    /\ hasKey(body, <<"h", "t", "t", "p", "_", "m", "e", "t", "h", "o", "d">>)
    /\ getKey(body, <<"h", "t", "t", "p", "_", "m", "e", "t", "h", "o", "d">>).t = "string"
    /\ getKey(body, <<"h", "t", "t", "p", "_", "m", "e", "t", "h", "o", "d">>).v \in HttpMethods

validResponseStructure(body) ==
    /\ hasKey(body, <<"r", "e", "s", "p", "o", "n", "s", "e", "_", "s", "t", "r", "u", "c", "t", "u", "r", "e">>)
    /\ getKey(body, <<"r", "e", "s", "p", "o", "n", "s", "e", "_", "s", "t", "r", "u", "c", "t", "u", "r", "e">>).t = "object"

validIsArray(body) ==
    \/ undefinedKey(body, <<"i", "s", "_", "a", "r", "r", "a", "y">>)
    \/ getKey(body, <<"i", "s", "_", "a", "r", "r", "a", "y">>).t = "boolean"

validArrayCount(body) ==
    \/ undefinedKey(body, <<"a", "r", "r", "a", "y", "_", "c", "o", "u", "n", "t">>)
    \/ /\ isInt(getKey(body, <<"a", "r", "r", "a", "y", "_", "c", "o", "u", "n", "t">>))
       /\ getKey(body, <<"a", "r", "r", "a", "y", "_", "c", "o", "u", "n", "t">>).v >= 1

validStatusCode(body) ==
    \/ undefinedKey(body, <<"s", "t", "a", "t", "u", "s", "_", "c", "o", "d", "e">>)
    \/ /\ isInt(getKey(body, <<"s", "t", "a", "t", "u", "s", "_", "c", "o", "d", "e">>))
       /\ getKey(body, <<"s", "t", "a", "t", "u", "s", "_", "c", "o", "d", "e">>).v >= 100
       /\ getKey(body, <<"s", "t", "a", "t", "u", "s", "_", "c", "o", "d", "e">>).v <= 599

\* the value of the key, or the default of the schema when it is undefined
orDefault(body, key, default) ==
    IF undefinedKey(body, key) THEN default ELSE getKey(body, key).v

\* the object z.object({...}).parse returns: the seven keys, other keys of
\* the body are stripped
parsedData(body) ==
    [name |-> getKey(body, <<"n", "a", "m", "e">>).v,
     path_template |-> getKey(body, <<"p", "a", "t", "h", "_", "t", "e", "m", "p", "l", "a", "t", "e">>).v,
     http_method |-> getKey(body, <<"h", "t", "t", "p", "_", "m", "e", "t", "h", "o", "d">>).v,
     response_structure |-> getKey(body, <<"r", "e", "s", "p", "o", "n", "s", "e", "_", "s", "t", "r", "u", "c", "t", "u", "r", "e">>),
     is_array |-> orDefault(body, <<"i", "s", "_", "a", "r", "r", "a", "y">>, FALSE),
     array_count |-> orDefault(body, <<"a", "r", "r", "a", "y", "_", "c", "o", "u", "n", "t">>, 1),
     status_code |-> orDefault(body, <<"s", "t", "a", "t", "u", "s", "_", "c", "o", "d", "e">>, 200)]

\* mockSchemaParse without the range check of status_code and array_count
mockSchemaParseNoRange(body) ==
    IF /\ body.t = "object"
       /\ validName(body)
       /\ validPathTemplate(body)
       /\ validHttpMethod(body)
       /\ validResponseStructure(body)
       /\ validIsArray(body)
    THEN <<parsedData(body)>>
    ELSE <<>>

\* mockSchema.parse(body): <<>> for a ZodError, <<parsedData>> otherwise
mockSchemaParse(body) ==
    IF /\ body.t = "object"
       /\ validName(body)
       /\ validPathTemplate(body)
       /\ validHttpMethod(body)
       /\ validResponseStructure(body)
       /\ validIsArray(body)
       /\ validArrayCount(body)
       /\ validStatusCode(body)
    THEN <<parsedData(body)>>
    ELSE <<>>

\* mockUpdateSchema.parse(body): the same seven keys and checks
mockUpdateSchemaParse(body) ==
    IF /\ body.t = "object"
       /\ validName(body)
       /\ validPathTemplate(body)
       /\ validHttpMethod(body)
       /\ validResponseStructure(body)
       /\ validIsArray(body)
       /\ validArrayCount(body)
       /\ validStatusCode(body)
    THEN <<parsedData(body)>>
    ELSE <<>>

\* the path normalisation of the two handlers: a leading '/' is added when
\* there is none, and one trailing '/' is removed unless the path is '/'
normalizePathTemplate(path_template) ==
    cleanTrailing(normLeading(path_template))

\* parsedData with its path_template normalized
normalizedData(data) ==
    [data EXCEPT !.path_template = normalizePathTemplate(data.path_template)]

\* the row insert({ ...parsedData, user_id }) creates, with the id the
\* database gives it
insertedRow(data, user_id, id) ==
    [id |-> id, user_id |-> user_id, name |-> data.name,
     path_template |-> data.path_template, http_method |-> data.http_method,
     response_structure |-> data.response_structure, is_array |-> data.is_array,
     array_count |-> data.array_count, status_code |-> data.status_code]

\* the row after update({ ...parsedData, updated_at })
updatedRow(row, data) == insertedRow(data, row.user_id, row.id)

\* update(...).eq('id', mockId) without .eq('user_id', user.id)
updateTargetsAnyUser(table, mockId, user_id) == {m \in table : m.id = mockId}

\* the rows .eq('id', mockId).eq('user_id', user.id) selects for the update
updateTargets(table, mockId, user_id) ==
    {m \in table : m.id = mockId /\ m.user_id = user_id}

\* the rows .eq('id', mockId).eq('user_id', user.id) selects for the delete
deleteTargets(table, mockId, user_id) ==
    {m \in table : m.id = mockId /\ m.user_id = user_id}

\* NextResponse.json(..., { status }): the status and the error text
Json(code, error) == [status |-> code, error |-> error]

\* what a handler did: its response, the table after it and the write it
\* issued to the store
Handled(response, table, issued) ==
    [response |-> response, table |-> table, issued |-> issued]

\* POST without the check of the user
postBody(table, body, user_id, id, dbError) ==
    IF body = <<>>
    THEN Handled(Json(500, "Failed to process request"), table, <<>>)
    ELSE IF mockSchemaParse(body[1]) = <<>>
    THEN Handled(Json(400, "Invalid input"), table, <<>>)
    ELSE IF dbError = "23505"
    THEN Handled(Json(409, "A mock with this path and method might already exist or another unique constraint failed."),
                 table, <<"insert">>)
    ELSE IF dbError # "none"
    THEN Handled(Json(500, "error.message"), table, <<"insert">>)
    ELSE Handled(Json(201, "none"),
                 table \cup {insertedRow(normalizedData(mockSchemaParse(body[1])[1]),
                                         user_id, id)},
                 <<"insert">>)

\* POST(request): user is <<>> when nobody is authenticated, body is <<>>
\* when request.json() throws, id is the id the database gives a new row and
\* dbError the error of the insert ("none" when it succeeds)
POST(table, user, body, id, dbError) ==
    IF user = <<>> THEN Handled(Json(401, "Unauthorized"), table, <<>>)
    ELSE postBody(table, body, user[1], id, dbError)

\* the update of the PUT handler and its response
putUpdate(table, targets, data, dbError) ==
    IF dbError # "none"
    THEN Handled(Json(500, "error.message"), table, <<"update">>)
    ELSE IF targets = {}
    THEN Handled(Json(404, "Mock not found or you do not have permission to update it."),
                 table, <<"update">>)
    ELSE Handled(Json(200, "none"),
                 (table \ targets) \cup {updatedRow(m, data) : m \in targets},
                 <<"update">>)

\* the try block of PUT
putBody(table, mockId, body, user_id, dbError) ==
    IF body = <<>>
    THEN Handled(Json(500, "Failed to process request"), table, <<>>)
    ELSE IF mockUpdateSchemaParse(body[1]) = <<>>
    THEN Handled(Json(400, "Invalid input"), table, <<>>)
    ELSE putUpdate(table, updateTargets(table, mockId, user_id),
                   normalizedData(mockUpdateSchemaParse(body[1])[1]), dbError)

\* PUT with the format of the id checked before the user
PUTIdFirst(table, user, mockId, body, dbError) ==
    IF ~isUuid(mockId)
    THEN Handled(Json(400, "Invalid Mock ID format"), table, <<>>)
    ELSE IF user = <<>> THEN Handled(Json(401, "Unauthorized"), table, <<>>)
    ELSE putBody(table, mockId, body, user[1], dbError)

\* PUT(request, { params }) for params.id = mockId
PUT(table, user, mockId, body, dbError) ==
    IF user = <<>> THEN Handled(Json(401, "Unauthorized"), table, <<>>)
    ELSE IF mockId = <<>>
    THEN Handled(Json(400, "Mock ID is required"), table, <<>>)
    ELSE IF ~isUuid(mockId)
    THEN Handled(Json(400, "Invalid Mock ID format"), table, <<>>)
    ELSE putBody(table, mockId, body, user[1], dbError)

\* the try block of DELETE: count is the number of rows deleted
deleteRows(table, targets, dbError) ==
    IF dbError # "none"
    THEN Handled(Json(500, "deleteError.message"), table, <<"delete">>)
    ELSE IF Cardinality(targets) = 0
    THEN Handled(Json(404, "Mock not found or you do not have permission to delete it."),
                 table, <<"delete">>)
    ELSE Handled(Json(200, "none"), table \ targets, <<"delete">>)

\* DELETE(request, { params }) for params.id = mockId
DELETE(table, user, mockId, dbError) ==
    IF user = <<>> THEN Handled(Json(401, "Unauthorized"), table, <<>>)
    ELSE IF mockId = <<>>
    THEN Handled(Json(400, "Mock ID is required"), table, <<>>)
    ELSE IF ~isUuid(mockId)
    THEN Handled(Json(400, "Invalid Mock ID format"), table, <<>>)
    ELSE deleteRows(table, deleteTargets(table, mockId, user[1]), dbError)

\* the body with the value of the key replaced, or added at the end
RECURSIVE withKey(_, _, _)
withKey(pairs, key, value) ==
    IF pairs = <<>> THEN << <<key, value>> >>
    ELSE IF Head(pairs)[1] = key THEN << <<key, value>> >> \o Tail(pairs)
    ELSE <<Head(pairs)>> \o withKey(Tail(pairs), key, value)

with(body, key, value) == Obj(withKey(body.v, key, value))

\* the ids the database gives to new rows
IdPool ==
    { <<"1", "1", "1", "1", "1", "1", "1", "1", "-", "1", "1", "1", "1", "-", "4", "1", "1", "1", "-", "8", "1", "1", "1", "-", "1", "1", "1", "1", "1", "1", "1", "1", "1", "1", "1", "1">>,
      <<"A", "A", "A", "A", "A", "A", "A", "A", "-", "b", "b", "b", "b", "-", "4", "c", "c", "c", "-", "8", "d", "d", "d", "-", "e", "e", "e", "e", "e", "e", "e", "e", "e", "e", "e", "e">> }

\* params.id of the requests: the ids of the database, an id with a
\* character that is no hexadecimal digit and an id one character too long
RequestIds ==
    IdPool \cup { <<"g", "g", "g", "g", "g", "g", "g", "g", "-", "1", "1", "1", "1", "-", "4", "1", "1", "1", "-", "8", "1", "1", "1", "-", "1", "1", "1", "1", "1", "1", "1", "1", "1", "1", "1", "1">>,
                  <<"1", "1", "1", "1", "1", "1", "1", "1", "-", "1", "1", "1", "1", "-", "4", "1", "1", "1", "-", "8", "1", "1", "1", "-", "1", "1", "1", "1", "1", "1", "1", "1", "1", "1", "1", "1", "2">> }

\* getUser(): nobody, or one of two users
AuthUsers == { <<>>, <<"u1">>, <<"u2">> }

\* {"name":"a","path_template":"/a","http_method":"GET","response_structure":{},
\*  "is_array":false,"array_count":1,"status_code":200}
BodyPlain ==
    Obj(<< <<<<"n", "a", "m", "e">>, Str(<<"a">>)>>, <<<<"p", "a", "t", "h", "_", "t", "e", "m", "p", "l", "a", "t", "e">>, Str(<<"/", "a">>)>>,
           <<<<"h", "t", "t", "p", "_", "m", "e", "t", "h", "o", "d">>, Str(<<"G", "E", "T">>)>>, <<<<"r", "e", "s", "p", "o", "n", "s", "e", "_", "s", "t", "r", "u", "c", "t", "u", "r", "e">>, Obj(<<>>)>>,
           <<<<"i", "s", "_", "a", "r", "r", "a", "y">>, Bool(FALSE)>>, <<<<"a", "r", "r", "a", "y", "_", "c", "o", "u", "n", "t">>, Num(1)>>,
           <<<<"s", "t", "a", "t", "u", "s", "_", "c", "o", "d", "e">>, Num(200)>> >>)

\* a body with keys the schema does not have, the largest status and a path
\* that ends with two slashes
BodyExtraKeys ==
    Obj(<< <<<<"n", "a", "m", "e">>, Str(<<"a">>)>>, <<<<"p", "a", "t", "h", "_", "t", "e", "m", "p", "l", "a", "t", "e">>, Str(<<"/", "a", "/", "/">>)>>,
           <<<<"h", "t", "t", "p", "_", "m", "e", "t", "h", "o", "d">>, Str(<<"P", "O", "S", "T">>)>>, <<<<"r", "e", "s", "p", "o", "n", "s", "e", "_", "s", "t", "r", "u", "c", "t", "u", "r", "e">>, Obj(<<>>)>>,
           <<<<"i", "s", "_", "a", "r", "r", "a", "y">>, Bool(TRUE)>>, <<<<"a", "r", "r", "a", "y", "_", "c", "o", "u", "n", "t">>, Num(2)>>,
           <<<<"s", "t", "a", "t", "u", "s", "_", "c", "o", "d", "e">>, Num(599)>>,
           <<<<"i", "d">>, Str(<<"A", "A", "A", "A", "A", "A", "A", "A", "-", "b", "b", "b", "b", "-", "4", "c", "c", "c", "-", "8", "d", "d", "d", "-", "e", "e", "e", "e", "e", "e", "e", "e", "e", "e", "e", "e">>)>>,
           <<<<"u", "s", "e", "r", "_", "i", "d">>, Str(<<"u", "2">>)>> >>)

\* a body without the keys that have defaults, for the path '/'
BodyDefaults ==
    Obj(<< <<<<"n", "a", "m", "e">>, Str(<<"a">>)>>, <<<<"p", "a", "t", "h", "_", "t", "e", "m", "p", "l", "a", "t", "e">>, Str(<<"/">>)>>,
           <<<<"h", "t", "t", "p", "_", "m", "e", "t", "h", "o", "d">>, Str(<<"D", "E", "L", "E", "T", "E">>)>>, <<<<"r", "e", "s", "p", "o", "n", "s", "e", "_", "s", "t", "r", "u", "c", "t", "u", "r", "e">>, Obj(<<>>)>> >>)

\* the bodies the schema accepts
ValidBodies ==
    { BodyPlain, BodyExtraKeys, BodyDefaults,
      with(with(BodyPlain, <<"p", "a", "t", "h", "_", "t", "e", "m", "p", "l", "a", "t", "e">>, Str(<<"/", "a", "/">>)), <<"s", "t", "a", "t", "u", "s", "_", "c", "o", "d", "e">>, Num(100)) }

\* bodies the schema rejects, each for one key
InvalidBodies ==
    { with(BodyPlain, <<"p", "a", "t", "h", "_", "t", "e", "m", "p", "l", "a", "t", "e">>, Str(<<"a">>)),
      with(BodyPlain, <<"p", "a", "t", "h", "_", "t", "e", "m", "p", "l", "a", "t", "e">>, Str(<<>>)),
      with(BodyPlain, <<"h", "t", "t", "p", "_", "m", "e", "t", "h", "o", "d">>, Str(<<"P", "A", "T", "C", "H">>)),
      with(BodyPlain, <<"h", "t", "t", "p", "_", "m", "e", "t", "h", "o", "d">>, Str(<<"g", "e", "t">>)),
      with(BodyPlain, <<"s", "t", "a", "t", "u", "s", "_", "c", "o", "d", "e">>, Num(99)),
      with(BodyPlain, <<"s", "t", "a", "t", "u", "s", "_", "c", "o", "d", "e">>, Num(600)),
      with(BodyPlain, <<"s", "t", "a", "t", "u", "s", "_", "c", "o", "d", "e">>, Frac(200)),
      with(BodyPlain, <<"a", "r", "r", "a", "y", "_", "c", "o", "u", "n", "t">>, Num(0)),
      with(BodyPlain, <<"a", "r", "r", "a", "y", "_", "c", "o", "u", "n", "t">>, Frac(1)) }

\* what request.json() gives: <<>> when the body is not JSON
Bodies == {<<>>} \cup {<<b>> : b \in ValidBodies \cup InvalidBodies}

\* the errors the store answers a write with; "none": the write is done
DbErrors == {"none", "23505", "other"}

NoCrudRequest == [op |-> "none", user |-> <<>>, id |-> <<>>, body |-> <<>>]

CrudRequest(op, user, id, body) == [op |-> op, user |-> user, id |-> id, body |-> body]

CrudInit ==
    /\ profiles = ProfileRows
    /\ mock_endpoints = {}
    /\ request = NoRequest
    /\ RouteIdle
    /\ GenIdle
    /\ MatchIdle
    /\ ConcIdle
    /\ CrudIdle
    /\ PagesIdle

\* the handler ran for the request req and ended as handled
ran(req, handled) ==
    /\ kRequest' = req
    /\ kResponse' = <<handled.response>>
    /\ kBefore' = mock_endpoints
    /\ kIssued' = handled.issued
    /\ mock_endpoints' = handled.table
    /\ UNCHANGED notCrud

\* a POST /api/project-mocks request is handled
Create(user, body, id, dbError) ==
    /\ kRequest = NoCrudRequest
    /\ id \notin {m.id : m \in mock_endpoints}
    /\ ran(CrudRequest("POST", user, <<>>, body),
           POST(mock_endpoints, user, body, id, dbError))

\* a PUT /api/project-mocks/{id} request is handled
Update(user, mockId, body, dbError) ==
    /\ kRequest = NoCrudRequest
    /\ ran(CrudRequest("PUT", user, mockId, body),
           PUT(mock_endpoints, user, mockId, body, dbError))

\* a DELETE /api/project-mocks/{id} request is handled
Remove(user, mockId, dbError) ==
    /\ kRequest = NoCrudRequest
    /\ ran(CrudRequest("DELETE", user, mockId, <<>>),
           DELETE(mock_endpoints, user, mockId, dbError))

\* the response is sent and the next request can come
Answered ==
    /\ kRequest # NoCrudRequest
    /\ kRequest' = NoCrudRequest
    /\ kResponse' = <<>>
    /\ kBefore' = {}
    /\ kIssued' = <<>>
    /\ UNCHANGED mock_endpoints
    /\ UNCHANGED notCrud

CrudNext ==
    \/ \E user \in AuthUsers, body \in Bodies, id \in IdPool, dbError \in DbErrors :
          Create(user, body, id, dbError)
    \/ \E user \in AuthUsers, mockId \in RequestIds, body \in Bodies,
          dbError \in DbErrors \ {"23505"} :
          Update(user, mockId, body, dbError)
    \/ \E user \in AuthUsers, mockId \in RequestIds, dbError \in DbErrors \ {"23505"} :
          Remove(user, mockId, dbError)
    \/ Answered

CrudSpec == CrudInit /\ [][CrudNext]_vars

----------------------------------------------------------------------------
(* getFakerFunction taken by itself, for dotted paths of a few segments   *)

\* the number of segments of the longest path
MaxParts == 4

\* the segments of the paths: names of the library, the inherited property,
\* the empty segment and a name the library does not have
Segments ==
    { <<"f", "a", "k", "e", "r">>, <<"s", "t", "r", "i", "n", "g">>, <<"u", "u", "i", "d">>, <<"n", "u", "m", "b", "e", "r">>, <<"i", "n", "t">>, <<"c", "o", "n", "s", "t", "r", "u", "c", "t", "o", "r">>,
      <<>>, <<"x">> }

\* the paths: one to MaxParts segments joined with '.'
ResolvePaths ==
    UNION { {join(parts, ".") : parts \in [1..n -> Segments]} : n \in 1..MaxParts }

ResolveInit ==
    /\ profiles = ProfileRows
    /\ mock_endpoints = {}
    /\ request = NoRequest
    /\ RouteIdle
    /\ GenIdle
    /\ MatchIdle
    /\ ConcIdle
    /\ CrudIdle
    /\ PagesIdle

\* getFakerFunction(path) is called and returns
Resolve(path) ==
    /\ qPath = <<>>
    /\ qPath' = <<path>>
    /\ qReturn' = getFakerFunction(path)
    /\ UNCHANGED notResolve

ResolveNext == \E path \in ResolvePaths : Resolve(path)

ResolveSpec == ResolveInit /\ [][ResolveNext]_vars

----------------------------------------------------------------------------
(* The middleware (src/middleware.ts) and the navigation of a browser     *)
(* that follows its redirects                                              *)

\* NextResponse.redirect(new URL(target, request.url)), and a response that
\* lets the request through (what updateSession returns, NextResponse.next)
RedirectTo(target) == [redirect |-> <<target>>]

PassThrough == [redirect |-> <<>>]

\* the text after the first '/' starts with 'favicon.ico', where the '.' of
\* the pattern stands for any character
startsWithFavicon(rest) ==
    /\ Len(rest) >= 11
    /\ SubSeq(rest, 1, 7) = <<"f", "a", "v", "i", "c", "o", "n">>
    /\ SubSeq(rest, 9, 11) = <<"i", "c", "o">>

\* config.matcher: '/((?!_next/static|_next/image|favicon.ico|api/v1/mock).*)'
matcher_config(pathname) ==
    /\ startsWith(pathname, <<"/">>)
    /\ ~startsWith(Tail(pathname), <<"_", "n", "e", "x", "t", "/", "s", "t", "a", "t", "i", "c">>)
    /\ ~startsWith(Tail(pathname), <<"_", "n", "e", "x", "t", "/", "i", "m", "a", "g", "e">>)
    /\ ~startsWithFavicon(Tail(pathname))
    /\ ~startsWith(Tail(pathname), <<"a", "p", "i", "/", "v", "1", "/", "m", "o", "c", "k">>)

\* the middleware with '/login' among the protected routes
middlewareLoginProtected(pathname, user) ==
    IF user /\ pathname \in {<<"/", "l", "o", "g", "i", "n">>, <<"/", "s", "i", "g", "n", "u", "p">>}
    THEN RedirectTo(<<"/", "d", "a", "s", "h", "b", "o", "a", "r", "d">>)
    ELSE IF /\ ~user
            /\ \/ startsWith(pathname, <<"/", "d", "a", "s", "h", "b", "o", "a", "r", "d">>)
               \/ startsWith(pathname, <<"/", "m", "o", "c", "k", "s", "/", "n", "e", "w">>)
               \/ startsWith(pathname, <<"/", "l", "o", "g", "i", "n">>)
    THEN RedirectTo(<<"/", "l", "o", "g", "i", "n">>)
    ELSE PassThrough

\* middleware(request) for request.nextUrl.pathname and the user of getUser()
middleware(pathname, user) ==
    IF pathname \in {<<"/", "l", "o", "g", "i", "n">>, <<"/", "s", "i", "g", "n", "u", "p">>}
    THEN IF user THEN RedirectTo(<<"/", "d", "a", "s", "h", "b", "o", "a", "r", "d">>) ELSE PassThrough
    ELSE IF /\ \/ startsWith(pathname, <<"/", "d", "a", "s", "h", "b", "o", "a", "r", "d">>)
               \/ startsWith(pathname, <<"/", "m", "o", "c", "k", "s", "/", "n", "e", "w">>)
            /\ ~user
    THEN RedirectTo(<<"/", "l", "o", "g", "i", "n">>)
    ELSE PassThrough

\* what the server does with a request: the middleware runs for the paths
\* of config.matcher
throughMiddleware(pathname, user) ==
    IF matcher_config(pathname) THEN middleware(pathname, user) ELSE PassThrough

\* the most redirects a navigation follows
MaxRedirects == 3

\* the pathnames requested: '/' and one or two of the segments, and some
\* pathnames around the routes and the paths of the matcher
WebSegments == { <<"d", "a", "s", "h", "b", "o", "a", "r", "d">>, <<"l", "o", "g", "i", "n">>, <<"s", "i", "g", "n", "u", "p">>, <<"m", "o", "c", "k", "s">>, <<"n", "e", "w">>, <<"x">> }

WebPaths ==
    { <<"/">> }
    \cup { <<"/">> \o a : a \in WebSegments }
    \cup { <<"/">> \o a \o <<"/">> \o b : a \in WebSegments, b \in WebSegments }
    \cup { <<"/", "d", "a", "s", "h", "b", "o", "a", "r", "d", "x">>, <<"/", "m", "o", "c", "k", "s", "/", "n", "e", "w", "e", "r">>, <<"/", "m", "o", "c", "k", "s", "/", "n", "e", "w", "/", "x">>, <<"/", "l", "o", "g", "i", "n", "/">>,
           <<"/", "L", "o", "g", "i", "n">>, <<"/", "a", "p", "i", "/", "v", "1", "/", "m", "o", "c", "k", "/", "p", "1", "/", "d", "a", "s", "h", "b", "o", "a", "r", "d">>, <<"/", "a", "p", "i", "/", "v", "1", "/", "m", "o", "c", "k", "e", "r", "y">>,
           <<"/", "a", "p", "i", "/", "p", "r", "o", "j", "e", "c", "t", "-", "m", "o", "c", "k", "s">>, <<"/", "_", "n", "e", "x", "t", "/", "s", "t", "a", "t", "i", "c", "/", "a", ".", "j", "s">>, <<"/", "_", "n", "e", "x", "t", "/", "i", "m", "a", "g", "e">>,
           <<"/", "f", "a", "v", "i", "c", "o", "n", ".", "i", "c", "o">>, <<"/", "f", "a", "v", "i", "c", "o", "n", "x", "i", "c", "o">>, <<"/", "_", "n", "e", "x", "t", "/", "d", "a", "t", "a">> }

MiddlewareInit ==
    /\ profiles = ProfileRows
    /\ mock_endpoints = {}
    /\ request = NoRequest
    /\ RouteIdle
    /\ GenIdle
    /\ MatchIdle
    /\ ConcIdle
    /\ CrudIdle
    /\ PagesIdle

\* a browser, with or without a session, asks for a pathname
Navigate(pathname, user) ==
    /\ wPc = "idle"
    /\ wPc' = "requested"
    /\ wUser' = user
    /\ wPathname' = pathname
    /\ wRedirects' = <<>>
    /\ UNCHANGED notMiddleware

\* the request is handled: it is answered with a redirect, which the browser
\* follows with the same session, or it is let through to the page
Middleware ==
    /\ wPc = "requested"
    /\ Len(wRedirects) < MaxRedirects
    /\ IF throughMiddleware(wPathname, wUser).redirect # <<>>
       THEN /\ wPathname' = throughMiddleware(wPathname, wUser).redirect[1]
            /\ wRedirects' = Append(wRedirects, wPathname)
            /\ wPc' = "requested"
       ELSE /\ wPc' = "served"
            /\ UNCHANGED <<wPathname, wRedirects>>
    /\ UNCHANGED wUser
    /\ UNCHANGED notMiddleware

MiddlewareNext ==
    \/ \E pathname \in WebPaths, user \in BOOLEAN : Navigate(pathname, user)
    \/ Middleware

MiddlewareSpec == MiddlewareInit /\ [][MiddlewareNext]_vars

----------------------------------------------------------------------------
(* The dashboard (src/app/dashboard/page.tsx) and a request to a URL it   *)
(* shows                                                                   *)

\* the rows of the stores: patterns without named parameters, with and
\* without a project, and one pattern with a parameter
DashRowPool ==
    { Row(11, "u1", <<"/", "i", "t", "e", "m", "s">>, <<"G", "E", "T">>, NoBase, 200, TemplatePlain, FALSE, 1),
      Row(12, "u1", <<"/", "i", "t", "e", "m", "s">>, <<"G", "E", "T">>, <<<<"/", "s", "h", "o", "p">>>>, 201, TemplatePlain, FALSE, 1),
      Row(13, "u1", <<"/">>, <<"G", "E", "T">>, <<<<"s", "h", "o", "p", "/">>>>, 202, TemplatePlain, FALSE, 1),
      Row(14, "u1", <<"/", "i", "t", "e", "m", "s", "/", "a", "c", "t", "i", "v", "e">>, <<"P", "O", "S", "T">>, NoBase, 203, TemplatePlain, FALSE, 1),
      Row(15, "u2", <<"/", "i", "t", "e", "m", "s">>, <<"G", "E", "T">>, NoBase, 204, TemplatePlain, FALSE, 1),
      Row(16, "u1", <<"/", "i", "t", "e", "m", "s", "/", ":", "i", "d">>, <<"G", "E", "T">>, NoBase, 205, TemplatePlain, FALSE, 1),
      Row(17, "u1", <<"/", "I", "t", "e", "m", "s">>, <<"G", "E", "T">>, NoBase, 206, TemplatePlain, FALSE, 1),
      Row(18, "u1", <<"/", "i", "t", "e", "m", "s", "/", "a", "c", "t", "i", "v", "e">>, <<"G", "E", "T">>, <<<<>>>>, 207, TemplatePlain, FALSE, 1) }

DashStores == { s \in SUBSET DashRowPool : Cardinality(s) <= MaxMocks }

\* the text of an api_route_prefix of table profiles
PrefixText(api_route_prefix) ==
    IF api_route_prefix = "p1" THEN <<"p", "1">>
    ELSE IF api_route_prefix = "p2" THEN <<"p", "2">>
    ELSE <<"p", "x">>

\* getMocks: the rows of the user
getMocks(mockTable, ownerId) == {m \in mockTable : m.user_id = ownerId}

\* getApiPrefix: <<>> for null
getApiPrefix(profileTable, ownerId) ==
    LET rows == {p \in profileTable : p.id = ownerId}
    IN  IF Cardinality(rows) = 1
        THEN <<PrefixText((CHOOSE p \in rows : TRUE).api_route_prefix)>>
        ELSE <<>>

\* the path of baseMockUrl: `${appBaseUrl}/api/v1/mock/${apiPrefix}`
baseMockUrl(apiPrefix) == <<"/", "a", "p", "i", "/", "v", "1", "/", "m", "o", "c", "k", "/">> \o apiPrefix

\* fullMockUrl of a card: baseMockUrl followed by the path_template, with a
\* '/' between them when the path_template does not start with one
fullMockUrl(base, mock) ==
    base \o (IF startsWith(mock.path_template, <<"/">>)
             THEN mock.path_template
             ELSE <<"/">> \o mock.path_template)

\* the segments of the pathname after /api/v1/mock/: the first is the
\* parameter api_route_prefix of the route, the others are slug
routeSegments(url) ==
    SelectSeq(split(SubSeq(url, Len(<<"/", "a", "p", "i", "/", "v", "1", "/", "m", "o", "c", "k", "/">>) + 1, Len(url)), "/"),
              LAMBDA part : part # <<>>)

\* the api_route_prefix of table profiles with this text
prefixOfText(text) ==
    IF text = <<"p", "1">> THEN "p1" ELSE IF text = <<"p", "2">> THEN "p2" ELSE "px"

DashInit ==
    /\ profiles = ProfileRows
    /\ mock_endpoints \in DashStores
    /\ request = NoRequest
    /\ RouteIdle
    /\ GenIdle
    /\ MatchIdle
    /\ ConcIdle
    /\ CrudIdle
    /\ PagesIdle

\* DashboardPage for the user: the cards of the user's rows in the order of
\* getMocks, each with its fullMockUrl
DashboardPage(user) ==
    /\ dPc = "idle"
    /\ getApiPrefix(profiles, user) # <<>>
    /\ getMocks(mock_endpoints, user) # {}
    /\ \E mocks \in Orders(getMocks(mock_endpoints, user)) :
          /\ dMocks' = mocks
          /\ dUrl' = [i \in 1..Len(mocks) |->
                         fullMockUrl(baseMockUrl(getApiPrefix(profiles, user)[1]),
                                     mocks[i])]
    /\ dPc' = "listed"
    /\ UNCHANGED <<dMock, dFound, mock_endpoints>>
    /\ UNCHANGED notDash

\* a request with the method of the i-th card to the URL of the card:
\* findMatchingMock for the parameters of the route, with the rows selected
\* from the store in the order userMocksAndProjects
RequestShown(i) ==
    /\ dPc = "listed"
    /\ i \in 1..Len(dMocks)
    /\ routeSegments(dUrl[i]) # <<>>
    /\ selectProfile(profiles, prefixOfText(routeSegments(dUrl[i])[1])) # <<>>
    /\ \E userMocksAndProjects \in
             Orders(selectMocks(mock_endpoints,
                                selectProfile(profiles,
                                              prefixOfText(routeSegments(dUrl[i])[1]))[1],
                                dMocks[i].http_method)) :
          dFound' = <<[url |-> dUrl[i],
                       requestedSlugParts |-> Tail(routeSegments(dUrl[i])),
                       userMocksAndProjects |-> userMocksAndProjects,
                       find |-> findFrom(userMocksAndProjects, 1,
                                         Tail(routeSegments(dUrl[i])))]>>
    /\ dPc' = "resolved"
    /\ dMock' = <<dMocks[i]>>
    /\ UNCHANGED <<dMocks, dUrl, mock_endpoints>>
    /\ UNCHANGED notDash

DashNext ==
    \/ \E user \in {"u1", "u2"} : DashboardPage(user)
    \/ \E i \in 1..MaxMocks : RequestShown(i)

DashSpec == DashInit /\ [][DashNext]_vars

----------------------------------------------------------------------------
(* C21 to C30 *)

\* C21: no step of serving a request (the two queries, the loop, the
\* generation, the response; first run or retry; answered with the stored
\* status, 404 or 500) changes the table of profiles or the table of endpoint
\* definitions.
C21_StoresOnlyRead ==
    [][profiles' = profiles /\ mock_endpoints' = mock_endpoints]_vars

\* a request that was served with the stored status of a row is sent again
\* and served again from the same row
C21_Witness ==
    /\ pc = "done"
    /\ prev # <<>>
    /\ prev[1] # <<>>
    /\ ~found.threw
    /\ found.mock = prev[1]
    /\ found.mock[1] \in mock_endpoints
    /\ Len(responses) = 1
    /\ responses[1].status = found.mock[1].status_code

\* a retried request answered 404
C21_NotFoundCase ==
    /\ pc = "done"
    /\ prev # <<>>
    /\ mock_endpoints # {}
    /\ responses = <<notFoundResponse>>

\* a retried request answered 500
C21_ErrorCase ==
    /\ pc = "done"
    /\ prev # <<>>
    /\ mock_endpoints # {}
    /\ Len(responses) = 1
    /\ responses[1].status = 500

\* p starts with exactly one '/', has no empty segment and does not end with
\* '/' unless it is exactly '/'
isNormalized(p) ==
    /\ Len(p) >= 1
    /\ p[1] = "/"
    /\ \A i \in 1..(Len(p) - 1) : ~(p[i] = "/" /\ p[i + 1] = "/")
    /\ p[Len(p)] = "/" => Len(p) = 1

\* C23: the canonical pattern handed to the matcher is normalized, for every
\* group base path and every path pattern: exactly one leading '/', no empty
\* segment, no trailing '/' unless it is exactly '/'.
C23_CanonicalNormalized ==
    mPc \in {"composed", "matched", "threw", "returned"} =>
        isNormalized(mFullPathTemplate)

\* the stored path '//items' of a row without project is handed to the
\* matcher as it is
C23_LeadingSlashesKept ==
    /\ mPc = "composed"
    /\ mMock.projects = NoBase
    /\ mMock.path_template = <<"/", "/", "i", "t", "e", "m", "s">>
    /\ mFullPathTemplate = <<"/", "/", "i", "t", "e", "m", "s">>

\* the group base path '/' gives a pattern with an empty first segment
C23_RootBaseCase ==
    /\ mPc = "composed"
    /\ mMock.projects = <<<<"/">>>>
    /\ mMock.path_template = <<"/", "i", "t", "e", "m", "s", "/", ":", "i", "d">>
    /\ mFullPathTemplate = <<"/", "/", "i", "t", "e", "m", "s", "/", ":", "i", "d">>

\* of several trailing slashes one is removed
C23_TrailingSlashesCase ==
    /\ mPc = "composed"
    /\ mMock.projects = NoBase
    /\ mMock.path_template = <<"/", "i", "t", "e", "m", "s", "/", "/">>
    /\ mFullPathTemplate = <<"/", "i", "t", "e", "m", "s", "/">>

\* the canonical pattern is normalized when the path_template and the base
\* path have no two slashes in a row and the base path is not '/'
C23_NormalizedForPlainInputs ==
    (/\ mPc \in {"composed", "matched", "threw", "returned"}
     /\ isNormalized(normalized(mMock.path_template))
     /\ absent(mMock.projects)
            \/ (isNormalized(normalized(mMock.projects[1]))
                    /\ normalized(mMock.projects[1]) # <<"/">>))
        => isNormalized(mFullPathTemplate)

\* the four invariants of a stored endpoint definition
storedValid(m) ==
    /\ m.path_template # <<>>
    /\ Head(m.path_template) = "/"
    /\ m.http_method \in HttpMethods
    /\ m.status_code \in 100..599
    /\ m.array_count \in Nat
    /\ m.array_count >= 1

\* the body of a create or update request breaks one of the invariants
violates(body) ==
    \/ ~validPathTemplate(body)
    \/ ~validHttpMethod(body)
    \/ ~validStatusCode(body)
    \/ ~validArrayCount(body)

\* the request handled last was a create or an update with such a body
violating ==
    /\ kRequest.op \in {"POST", "PUT"}
    /\ kRequest.body # <<>>
    /\ violates(kRequest.body[1])

\* C24 as stated: after any sequence of create and update requests every
\* stored definition has a non-empty path_template starting with '/', an
\* http_method in {GET, POST, PUT, DELETE}, an integer status_code in
\* 100..599 and an integer array_count >= 1; every request that violates one
\* of these is answered 400 and writes nothing.
C24_ViolationAnswered400 ==
    /\ \A m \in mock_endpoints : storedValid(m)
    /\ violating =>
          /\ kResponse[1].status = 400
          /\ kIssued = <<>>
          /\ mock_endpoints = kBefore

\* C24 amended: every stored definition satisfies the four invariants; a
\* violating request writes nothing, and it is answered 400 when its user is
\* authenticated, 401 when not.
C24_StoredDefinitionsValid ==
    /\ \A m \in mock_endpoints : storedValid(m)
    /\ violating =>
          /\ kIssued = <<>>
          /\ mock_endpoints = kBefore
          /\ kResponse[1].status = IF kRequest.user = <<>> THEN 401 ELSE 400

\* C24 witness: with a definition stored, an authenticated update of it with
\* status_code 600 is answered 400
C24_Witness ==
    /\ kRequest.op = "PUT"
    /\ kRequest.user = <<"u1">>
    /\ kRequest.body = <<with(BodyPlain, <<"s", "t", "a", "t", "u", "s", "_", "c", "o", "d", "e">>, Num(600))>>
    /\ \E m \in mock_endpoints : m.id = kRequest.id /\ m.user_id = "u1"
    /\ kResponse[1].status = 400

\* a create with a path_template that does not start with '/' is answered 400
C24_CreateCase ==
    /\ kRequest.op = "POST"
    /\ kRequest.user = <<"u2">>
    /\ kRequest.body = <<with(BodyPlain, <<"p", "a", "t", "h", "_", "t", "e", "m", "p", "l", "a", "t", "e">>, Str(<<"a">>))>>
    /\ kResponse[1].status = 400
    /\ mock_endpoints # {}

\* a violating request without authenticated user is answered 401
C24_UnauthenticatedCase ==
    /\ violating
    /\ kRequest.user = <<>>
    /\ kResponse[1].status = 401

\* C25: every path_template the create or update handler wrote does not end
\* with '/' unless it is exactly '/', for every accepted input, those ending
\* with several slashes included.
C25_NoTrailingSlashWritten ==
    \A m \in mock_endpoints :
        \/ m.path_template = <<"/">>
        \/ m.path_template[Len(m.path_template)] # "/"

\* the create handler accepted '/a//' and wrote '/a/'
C25_CreateCase ==
    /\ kRequest.op = "POST"
    /\ kResponse[1].status = 201
    /\ getKey(kRequest.body[1], <<"p", "a", "t", "h", "_", "t", "e", "m", "p", "l", "a", "t", "e">>).v = <<"/", "a", "/", "/">>
    /\ \E m \in mock_endpoints \ kBefore : m.path_template = <<"/", "a", "/">>

\* the update handler accepted '/a//' and wrote '/a/' over '/a'
C25_UpdateCase ==
    /\ kRequest.op = "PUT"
    /\ kResponse[1].status = 200
    /\ getKey(kRequest.body[1], <<"p", "a", "t", "h", "_", "t", "e", "m", "p", "l", "a", "t", "e">>).v = <<"/", "a", "/", "/">>
    /\ \E m \in mock_endpoints \ kBefore : m.path_template = <<"/", "a", "/">>
    /\ \E m \in kBefore \ mock_endpoints : m.path_template = <<"/", "a">>

\* an input with one trailing slash is written without it
C25_OneSlashCase ==
    /\ kRequest.op = "POST"
    /\ kResponse[1].status = 201
    /\ getKey(kRequest.body[1], <<"p", "a", "t", "h", "_", "t", "e", "m", "p", "l", "a", "t", "e">>).v = <<"/", "a", "/">>
    /\ \E m \in mock_endpoints \ kBefore : m.path_template = <<"/", "a">>

\* the records the request handled last removed or replaced, and the records
\* it added or put in their place
gone == kBefore \ mock_endpoints

come == mock_endpoints \ kBefore

\* C27: PUT and DELETE modify or remove at most the one record with the id
\* of the request, and only when its user_id is the authenticated user's id;
\* no request of one user changes or deletes a record of another user; an
\* update never changes the id or the user_id of a record.
C27_OnlyOwnRecordTouched ==
    /\ \A m \in kBefore : kRequest.user # <<m.user_id>> => m \in mock_endpoints
    /\ kRequest.op \in {"PUT", "DELETE"} =>
          /\ Cardinality(gone) <= 1
          /\ \A m \in gone : m.id = kRequest.id /\ kRequest.user = <<m.user_id>>
    /\ kRequest.op = "DELETE" => come = {}
    /\ kRequest.op = "PUT" =>
          /\ Cardinality(come) <= 1
          /\ \A n \in come : \E m \in gone : n.id = m.id /\ n.user_id = m.user_id
          /\ {m.id : m \in mock_endpoints} = {m.id : m \in kBefore}

\* C27 witness: u1 updated its record with a body that has the keys id and
\* user_id of another record and user, while u2 has a record too; the record
\* kept its id and user_id
C27_Witness ==
    /\ kRequest.op = "PUT"
    /\ kRequest.user = <<"u1">>
    /\ kRequest.body = <<BodyExtraKeys>>
    /\ kResponse[1].status = 200
    /\ \E m \in kBefore : m.user_id = "u2" /\ m.id # kRequest.id
    /\ \E m \in gone, n \in come :
          /\ m.id = kRequest.id
          /\ n.id = m.id
          /\ n.user_id = "u1"
          /\ n.path_template # m.path_template

\* u2 asked to update the record of u1: 404, nothing changed
C27_OtherUserUpdateCase ==
    /\ kRequest.op = "PUT"
    /\ kRequest.user = <<"u2">>
    /\ kRequest.body = <<BodyPlain>>
    /\ \E m \in kBefore : m.id = kRequest.id /\ m.user_id = "u1"
    /\ kResponse[1].status = 404
    /\ mock_endpoints = kBefore

\* u2 asked to delete the record of u1: 404, nothing changed
C27_OtherUserDeleteCase ==
    /\ kRequest.op = "DELETE"
    /\ kRequest.user = <<"u2">>
    /\ \E m \in kBefore : m.id = kRequest.id /\ m.user_id = "u1"
    /\ kResponse[1].status = 404
    /\ mock_endpoints = kBefore

\* u1 deleted its record, the record of u2 stayed
C27_DeleteCase ==
    /\ kRequest.op = "DELETE"
    /\ kRequest.user = <<"u1">>
    /\ kResponse[1].status = 200
    /\ Cardinality(gone) = 1
    /\ \E m \in mock_endpoints : m.user_id = "u2"

\* the body of the request handled last passes the schema of its handler
bodyValid ==
    /\ kRequest.body # <<>>
    /\ IF kRequest.op = "POST"
       THEN mockSchemaParse(kRequest.body[1]) # <<>>
       ELSE mockUpdateSchemaParse(kRequest.body[1]) # <<>>

\* C28: a create, update or delete request answered 400, 401 or 404 leaves
\* the store exactly as it was; a request without authenticated user is
\* answered 401 whatever its id is; a write is issued only after the id (of
\* an update or delete) and the body (of a create or update) were found
\* valid.
C28_RejectedLeavesStore ==
    kRequest.op # "none" =>
       /\ kResponse[1].status \in {400, 401, 404} => mock_endpoints = kBefore
       /\ kResponse[1].status \in {400, 401} => kIssued = <<>>
       /\ kRequest.user = <<>> => kResponse[1].status = 401
       /\ kIssued # <<>> =>
             /\ kRequest.user # <<>>
             /\ kRequest.op \in {"PUT", "DELETE"} => isUuid(kRequest.id)
             /\ kRequest.op \in {"POST", "PUT"} => bodyValid

\* C28 witness: with records of both users stored, an update without
\* authenticated user and with a malformed id is answered 401
C28_Witness ==
    /\ kRequest.op = "PUT"
    /\ kRequest.user = <<>>
    /\ ~isUuid(kRequest.id)
    /\ kResponse[1].status = 401
    /\ Cardinality(kBefore) = 2
    /\ mock_endpoints = kBefore

\* a delete with a malformed id by an authenticated user: 400
C28_InvalidIdCase ==
    /\ kRequest.op = "DELETE"
    /\ kRequest.user = <<"u1">>
    /\ ~isUuid(kRequest.id)
    /\ kResponse[1].status = 400
    /\ kBefore # {}

\* an update of an id no record has: the update is issued and answered 404
C28_NotFoundCase ==
    /\ kRequest.op = "PUT"
    /\ kResponse[1].status = 404
    /\ kIssued = <<"update">>
    /\ kBefore # {}
    /\ \A m \in kBefore : m.id # kRequest.id

\* an update with an invalid body of an owned record: 400
C28_InvalidBodyCase ==
    /\ kRequest.op = "PUT"
    /\ kResponse[1].status = 400
    /\ isUuid(kRequest.id)
    /\ \E m \in kBefore : m.id = kRequest.id /\ kRequest.user = <<m.user_id>>
    /\ ~bodyValid

\* the properties named key of the objects among the nodes
propsNamed(nodes, key) ==
    UNION { {o.props[i][2] : i \in {j \in 1..Len(o.props) : o.props[j][1] = key}}
            : o \in {x \in nodes : x.kind = "object"} }

\* the values the first n segments lead to: the library for the segment
\* 'faker', then from an object to its property with the name of the segment
RECURSIVE valuesAt(_, _)
valuesAt(parts, n) ==
    IF n = 1
    THEN IF parts[1] = <<"f", "a", "k", "e", "r">> THEN {faker} ELSE {}
    ELSE propsNamed(valuesAt(parts, n - 1), parts[n])

\* the final value of the path, <<>> when a segment leads nowhere
finalValue(path) ==
    LET parts == split(path, ".")
        values == valuesAt(parts, Len(parts))
    IN  IF values = {} THEN <<>> ELSE <<CHOOSE v \in values : TRUE>>

\* C26: getFakerFunction returns a callable exactly when the first segment
\* of the path is 'faker', every following segment names a property of the
\* object reached so far, every value before the last is an object and the
\* last value is a function, and then it returns that last value; in every
\* other case it returns not-found.
C26_CallableIffResolves ==
    qPath # <<>> =>
       IF finalValue(qPath[1]) # <<>> /\ finalValue(qPath[1])[1].kind = "function"
       THEN qReturn = <<finalValue(qPath[1])[1].fn>>
       ELSE qReturn = <<>>

\* C26 witness: 'faker.string.uuid' resolved to the function uuid
C26_Witness ==
    /\ qPath = <<<<"f", "a", "k", "e", "r", ".", "s", "t", "r", "i", "n", "g", ".", "u", "u", "i", "d">>>>
    /\ qReturn = <<"string.uuid">>

\* the bare path 'faker': not found
C26_BareCase ==
    /\ qPath = <<<<"f", "a", "k", "e", "r">>>>
    /\ qReturn = <<>>

\* a path that stops at a namespace: not found
C26_NamespaceCase ==
    /\ qPath = <<<<"f", "a", "k", "e", "r", ".", "n", "u", "m", "b", "e", "r">>>>
    /\ qReturn = <<>>

\* a path that goes on after a function: not found
C26_BeyondFunctionCase ==
    /\ qPath = <<<<"f", "a", "k", "e", "r", ".", "s", "t", "r", "i", "n", "g", ".", "u", "u", "i", "d", ".", "x">>>>
    /\ qReturn = <<>>

\* a path that does not start with 'faker': not found
C26_NoSentinelCase ==
    /\ qPath = <<<<"s", "t", "r", "i", "n", "g", ".", "u", "u", "i", "d">>>>
    /\ qReturn = <<>>

\* a property an object inherits is a property: 'faker.number.constructor'
\* resolves to a function
C26_InheritedCase ==
    /\ qPath = <<<<"f", "a", "k", "e", "r", ".", "n", "u", "m", "b", "e", "r", ".", "c", "o", "n", "s", "t", "r", "u", "c", "t", "o", "r">>>>
    /\ qReturn = <<"constructor">>

\* a path beginning with /dashboard or /mocks/new
protectedPath(pathname) ==
    \/ startsWith(pathname, <<"/", "d", "a", "s", "h", "b", "o", "a", "r", "d">>)
    \/ startsWith(pathname, <<"/", "m", "o", "c", "k", "s", "/", "n", "e", "w">>)

\* the path /login or /signup
authPath(pathname) == pathname = <<"/", "l", "o", "g", "i", "n">> \/ pathname = <<"/", "s", "i", "g", "n", "u", "p">>

\* a request for the pathname is to be redirected, and where to
toLogin(pathname) == ~wUser /\ protectedPath(pathname)

toDashboard(pathname) == wUser /\ authPath(pathname)

\* the pathname the i-th redirect of the navigation led to
redirectedTo(i) == IF i < Len(wRedirects) THEN wRedirects[i + 1] ELSE wPathname

\* C29: an unauthenticated request for a path beginning with /dashboard or
\* /mocks/new is redirected to /login, an authenticated request for /login
\* or /signup is redirected to /dashboard, every other request is passed
\* through; following the redirects with the same authentication state, a
\* page that is not redirected is reached after at most one redirect.
C29_RedirectsOnce ==
    /\ \A i \in 1..Len(wRedirects) :
          \/ toLogin(wRedirects[i]) /\ redirectedTo(i) = <<"/", "l", "o", "g", "i", "n">>
          \/ toDashboard(wRedirects[i]) /\ redirectedTo(i) = <<"/", "d", "a", "s", "h", "b", "o", "a", "r", "d">>
    /\ wPc = "served" => ~toLogin(wPathname) /\ ~toDashboard(wPathname)
    /\ Len(wRedirects) <= 1
    /\ wPc = "requested" /\ Len(wRedirects) = 1 =>
          throughMiddleware(wPathname, wUser) = PassThrough

\* C29 witness: an unauthenticated request for /dashboard/x was redirected
\* to /login, which was served
C29_Witness ==
    /\ wPc = "served"
    /\ ~wUser
    /\ wRedirects = <<<<"/", "d", "a", "s", "h", "b", "o", "a", "r", "d", "/", "x">>>>
    /\ wPathname = <<"/", "l", "o", "g", "i", "n">>

\* an authenticated request for /signup was redirected to /dashboard
C29_SignupCase ==
    /\ wPc = "served"
    /\ wUser
    /\ wRedirects = <<<<"/", "s", "i", "g", "n", "u", "p">>>>
    /\ wPathname = <<"/", "d", "a", "s", "h", "b", "o", "a", "r", "d">>

\* an unauthenticated request for /mocks/newer was redirected, one for
\* /login/ was not
C29_PrefixCase ==
    /\ wPc = "served"
    /\ ~wUser
    /\ wRedirects = <<<<"/", "m", "o", "c", "k", "s", "/", "n", "e", "w", "e", "r">>>>

C29_PassedCase ==
    /\ wPc = "served"
    /\ wUser
    /\ wRedirects = <<>>
    /\ wPathname = <<"/", "l", "o", "g", "i", "n", "/">>

\* the pattern has no named parameter
noNamedParameter(path_template) ==
    \A i \in 1..Len(path_template) : path_template[i] # ":"

\* position of the row in the order the route went through, 0 when absent
positionOf(mock, userMocksAndProjects) ==
    IF \E i \in 1..Len(userMocksAndProjects) : userMocksAndProjects[i] = mock
    THEN CHOOSE i \in 1..Len(userMocksAndProjects) : userMocksAndProjects[i] = mock
    ELSE 0

\* an earlier row of the order has a pattern that matches the request too
shadowed(mock, looked) ==
    \E i \in 1..Len(looked.userMocksAndProjects) :
        /\ i < positionOf(mock, looked.userMocksAndProjects)
        /\ match(fullPathTemplate(looked.userMocksAndProjects[i].projects,
                                  looked.userMocksAndProjects[i].path_template),
                 normalizedReqPath(looked.requestedSlugParts)).result

\* C30: for every endpoint listed on its owner's dashboard whose pattern has
\* no named parameter and is not shadowed by an earlier overlapping pattern,
\* a request with the endpoint's method to the displayed full mock URL is
\* resolved by the mock-serving route to that endpoint, also when the
\* endpoint belongs to a project with a base path.
C30_DisplayedUrlResolves ==
    (/\ dPc = "resolved"
     /\ noNamedParameter(dMock[1].path_template)
     /\ ~shadowed(dMock[1], dFound[1]))
    => dFound[1].find = Found(dMock)

\* the same for the endpoints without project base path: it holds
C30_ResolvesWithoutBasePath ==
    (/\ dPc = "resolved"
     /\ noNamedParameter(dMock[1].path_template)
     /\ ~Truthy(dMock[1].projects)
     /\ ~shadowed(dMock[1], dFound[1]))
    => dFound[1].find = Found(dMock)

\* the endpoint /items of the project with base path /shop is shown as
\* .../p1/items; the request to it finds no endpoint
C30_BasePathCase ==
    /\ dPc = "resolved"
    /\ dMock[1].id = 12
    /\ dFound[1].url = <<"/", "a", "p", "i", "/", "v", "1", "/", "m", "o", "c", "k", "/", "p", "1", "/", "i", "t", "e", "m", "s">>
    /\ dFound[1].userMocksAndProjects = dMock
    /\ dFound[1].find = Found(<<>>)

\* with the endpoint /items without project after it in the order, the
\* request is resolved to that other endpoint
C30_OtherEndpointCase ==
    /\ dPc = "resolved"
    /\ dMock[1].id = 12
    /\ Len(dFound[1].userMocksAndProjects) = 2
    /\ dFound[1].userMocksAndProjects[1] = dMock[1]
    /\ dFound[1].find.mock # <<>>
    /\ dFound[1].find.mock[1].id = 11

\* an endpoint without project is resolved
C30_PlainCase ==
    /\ dPc = "resolved"
    /\ dMock[1].id = 14
    /\ dFound[1].url = <<"/", "a", "p", "i", "/", "v", "1", "/", "m", "o", "c", "k", "/", "p", "1", "/", "i", "t", "e", "m", "s", "/", "a", "c", "t", "i", "v", "e">>
    /\ dFound[1].find = Found(dMock)

====
